---------------------------- MODULE Spec2Model ----------------------------
(***************************************************************************)
(* A model of the matching engine of jor-mar/syncify                       *)
(* (src/m3u2spotify/spotify.py): the normaliser clean_tags, the matchers   *)
(* strong_match and weak_match, the resolution procedure get_uri /         *)
(* search_all and the playlist reconcilers update_playlist and             *)
(* update_uris; and of Data.get_m3u_metadata and Data.import_uri           *)
(* (src/syncify/data.py), Authorise.auth and Authorise.refresh_token       *)
(* (src/syncify/authorise.py) and Environment.clean_up_env                 *)
(* (src/utils/environment.py).                                             *)
(*                                                                         *)
(* A Python str is a sequence of one-character strings; a Python dict is a *)
(* function whose DOMAIN is its key set, so "key absent" and "key present  *)
(* with value None" are different values.                                  *)
(***************************************************************************)
EXTENDS Integers, Sequences, FiniteSets, TLC

VARIABLES
    phase,       \* which procedure the behaviour exercises, and its position
    rec,         \* clean_tags: the record handed to clean_tags
    tagsArg,     \* clean_tags: its `tags` argument
    keys1,       \* clean_tags: the keys of the first application
    keys2,       \* clean_tags: the keys of the second application
    song0,       \* strong_match / weak_match: the song dict on entry
    song,        \* strong_match / weak_match: the song dict (mutated in place)
    tracks,      \* strong_match / weak_match: the candidate list
    ret,         \* strong_match / weak_match: the returned value
    g,           \* get_uri: its frame (position, song, locals, calls made)
    m3u0,        \* search_all: the local playlists on entry
    m3u,         \* search_all: the local playlists, name and songs, in dict order
    sa,          \* search_all: its frame (position, locals)
    local,       \* update_playlist, update_uris: the local playlists, name and songs, in dict order
    spotify,     \* update_playlist, update_uris: the remote playlists, by name
    limit,       \* update_playlist: its `limit` argument
    up,          \* update_playlist, update_uris: the frame (position, locals)
    calls,       \* update_playlist: the requests sent to the playlist writer
    md,          \* get_m3u_metadata: its frame (position, files, records)
    env,         \* clean_up_env: its frame, the clock and the two folders
    auth,        \* Authorise: self.TOKEN, self.headers, token.json and the frame of auth
    imp          \* import_uri: its frame, the playlists and the stored file

cleanVars == <<rec, tagsArg, keys1, keys2>>
matchVars == <<song0, song, tracks, ret>>
searchVars == <<m3u0, m3u, sa>>
syncVars == <<local, spotify, limit, up, calls>>
vars == <<phase, cleanVars, matchVars, g, searchVars, syncVars, md, env, auth, imp>>

None == "None"          \* Python's None
SongRef == "song"       \* a returned reference to the song dict itself
Unset == "-"            \* a model variable that holds nothing yet

-----------------------------------------------------------------------------
(* Python str operations, on sequences of characters                       *)

ToLower ==
    [c \in {"A","B","C","D","E","F","G","H","I","J","K","L","M",
            "N","O","P","Q","R","S","T","U","V","W","X","Y","Z"} |->
        CASE c = "A" -> "a" [] c = "B" -> "b" [] c = "C" -> "c" [] c = "D" -> "d"
          [] c = "E" -> "e" [] c = "F" -> "f" [] c = "G" -> "g" [] c = "H" -> "h"
          [] c = "I" -> "i" [] c = "J" -> "j" [] c = "K" -> "k" [] c = "L" -> "l"
          [] c = "M" -> "m" [] c = "N" -> "n" [] c = "O" -> "o" [] c = "P" -> "p"
          [] c = "Q" -> "q" [] c = "R" -> "r" [] c = "S" -> "s" [] c = "T" -> "t"
          [] c = "U" -> "u" [] c = "V" -> "v" [] c = "W" -> "w" [] c = "X" -> "x"
          [] c = "Y" -> "y" [] c = "Z" -> "z"]

Digits == {"0","1","2","3","4","5","6","7","8","9"}

\* the characters the class [A-Za-z0-9'] matches
KeyChars ==
    DOMAIN ToLower \cup {ToLower[c] : c \in DOMAIN ToLower} \cup Digits \cup {"'"}

\* str.lower()
Lower(s) ==
    [i \in 1..Len(s) |-> IF s[i] \in DOMAIN ToLower THEN ToLower[s[i]] ELSE s[i]]

\* s[i-1:].startswith(p), i counted from 1
StartsAt(s, p, i) ==
    /\ i + Len(p) - 1 <= Len(s)
    /\ SubSeq(s, i, i + Len(p) - 1) = p

\* p in s
In(p, s) == \E i \in 1..(Len(s) + 1) : StartsAt(s, p, i)

\* s[:n]
Prefix(s, n) == SubSeq(s, 1, IF n < Len(s) THEN n ELSE Len(s))

RECURSIVE ReplaceFrom(_, _, _, _)
ReplaceFrom(s, old, new, i) ==
    IF i > Len(s) THEN <<>>
    ELSE IF StartsAt(s, old, i) THEN new \o ReplaceFrom(s, old, new, i + Len(old))
    ELSE <<s[i]>> \o ReplaceFrom(s, old, new, i + 1)

\* s.replace(old, new), old non-empty
Replace(s, old, new) == ReplaceFrom(s, old, new, 1)

RECURSIVE SplitFrom(_, _, _, _)
SplitFrom(s, sep, i, cur) ==
    IF i > Len(s) THEN <<cur>>
    ELSE IF StartsAt(s, sep, i) THEN <<cur>> \o SplitFrom(s, sep, i + Len(sep), <<>>)
    ELSE SplitFrom(s, sep, i + 1, Append(cur, s[i]))

\* s.split(sep), sep non-empty
Split(s, sep) == SplitFrom(s, sep, 1, <<>>)

RECURSIVE SubBracketsFrom(_, _)
SubBracketsFrom(s, i) ==
    IF i > Len(s) THEN <<>>
    ELSE LET closers == {j \in (i + 1)..Len(s) : s[j] \in {")", "]"}}
         IN  IF s[i] \in {"(", "["} /\ closers # {}
             THEN SubBracketsFrom(s, 1 + CHOOSE j \in closers : \A k \in closers : j <= k)
             ELSE <<s[i]>> \o SubBracketsFrom(s, i + 1)

\* re.sub("[\(\[].*?[\)\]]", "", s)
SubBrackets(s) == SubBracketsFrom(s, 1)

RECURSIVE SubNonKeyFrom(_, _)
SubNonKeyFrom(s, i) ==
    IF i > Len(s) THEN <<>>
    ELSE IF s[i] \in KeyChars THEN <<s[i]>> \o SubNonKeyFrom(s, i + 1)
    ELSE IF i > 1 /\ s[i - 1] \notin KeyChars THEN SubNonKeyFrom(s, i + 1)
    ELSE <<" ">> \o SubNonKeyFrom(s, i + 1)

\* re.sub("[^A-Za-z0-9']+", ' ', s)
SubNonKey(s) == SubNonKeyFrom(s, 1)

\* s.strip()
Strip(s) ==
    LET solid == {i \in 1..Len(s) : s[i] # " "}
    IN  IF solid = {} THEN <<>>
        ELSE SubSeq(s, CHOOSE i \in solid : \A k \in solid : i <= k,
                       CHOOSE i \in solid : \A k \in solid : k <= i)

\* re.sub('[^0-9]', '', s)
RECURSIVE SubNonDigit(_)
SubNonDigit(s) ==
    IF s = <<>> THEN <<>>
    ELSE (IF Head(s) \in Digits THEN <<Head(s)>> ELSE <<>>) \o SubNonDigit(Tail(s))

DigitValue(c) ==
    CASE c = "0" -> 0 [] c = "1" -> 1 [] c = "2" -> 2 [] c = "3" -> 3 [] c = "4" -> 4
      [] c = "5" -> 5 [] c = "6" -> 6 [] c = "7" -> 7 [] c = "8" -> 8 [] c = "9" -> 9

\* int(s), s a non-empty string of digits
RECURSIVE ParseInt(_)
ParseInt(s) ==
    IF s = <<>> THEN 0
    ELSE 10 * ParseInt(SubSeq(s, 1, Len(s) - 1)) + DigitValue(s[Len(s)])

Abs(x) == IF x < 0 THEN 0 - x ELSE x

-----------------------------------------------------------------------------
(* Spotify.clean_tags                                                      *)

\* the fields clean_tags treats: `tags` is a list of tag names; the callers'
\* strings 'all' and 'title' (a substring test) select as <<"all">> and
\* <<"title">> do
TagsOf(tags) ==
    IF \E i \in 1..Len(tags) : tags[i] = "all" THEN {"title", "artist", "album"}
    ELSE {tags[i] : i \in 1..Len(tags)}

CleanTitle(title) ==
    LET a == Replace(Replace(SubBrackets(title), <<"p","a","r","t"," ">>, <<" ">>),
                     <<"t","h","e"," ">>, <<" ">>)
        b == Replace(Lower(a), <<"f","e","a","t","u","r","i","n","g">>, <<>>)
        c == Split(Split(Split(b, <<"f","e","a","t",".">>)[1],
                         <<"f","t",".">>)[1], <<" ","/"," ">>)[1]
    IN  Strip(SubNonKey(c))

CleanArtist(artist) ==
    LET a == Replace(SubBrackets(artist), <<"t","h","e"," ">>, <<" ">>)
        b == Replace(Lower(a), <<" ","f","e","a","t","u","r","i","n","g">>, <<>>)
        c == Split(Split(b, <<" ","f","e","a","t",".">>)[1], <<" ","f","t",".">>)[1]
        d == Split(Split(Split(c, <<"&">>)[1], <<" ","a","n","d"," ">>)[1],
                   <<" ","v","s">>)[1]
    IN  Strip(SubNonKey(d))

CleanAlbum(album) ==
    LET a == Replace(Lower(Split(album, <<"-">>)[1]), <<"e","p">>, <<>>)
        b == Replace(SubBrackets(a), <<"t","h","e"," ">>, <<" ">>)
    IN  Strip(SubNonKey(b))

\* clean_tags(song, tags): the tuple (title, artist, album)
clean_tags(s, tags) ==
    << IF "title" \in TagsOf(tags) THEN CleanTitle(s.title) ELSE s.title,
       IF "artist" \in TagsOf(tags) THEN CleanArtist(s.artist) ELSE s.artist,
       IF "album" \in TagsOf(tags) THEN CleanAlbum(s.album) ELSE s.album >>

-----------------------------------------------------------------------------
(* Python dict operations                                                  *)

\* d[k] = v
SetKey(d, k, v) == [x \in DOMAIN d \cup {k} |-> IF x = k THEN v ELSE d[x]]

\* d.get(k, None)
Get(d, k) == IF k \in DOMAIN d THEN d[k] ELSE None

\* 'uri' in song
HasUri(s) == "uri" \in DOMAIN s

-----------------------------------------------------------------------------
(* Spotify.strong_match and Spotify.weak_match                             *)

StrongTolerance == 20       \* seconds
MinLengthDiff == 600        \* seconds

KARAOKE == <<"k","a","r","a","o","k","e">>
BACKING == <<"b","a","c","k","i","n","g">>

\* all(word not in track['album']['name'].lower() for word in ['karaoke', 'backing'])
AlbumNotKaraoke(track) ==
    /\ ~In(KARAOKE, Lower(track.album.name))
    /\ ~In(BACKING, Lower(track.album.name))

\* all(word not in artist_ for word in ['karaoke', 'backing']): artist_ is the
\* artist dict, so `in` tests its keys
ArtistNotKaraoke(artist_) ==
    /\ "karaoke" \notin DOMAIN artist_
    /\ "backing" \notin DOMAIN artist_

\* int(re.sub('[^0-9]', '', track['album']['release_date'])[:4])
ReleaseYear(track) == ParseInt(Prefix(SubNonDigit(track.album.release_date), 4))

\* abs(track['duration_ms'] / 1000 - song['length']), in milliseconds
LengthDiffMs(s, track) == Abs(track.duration_ms - 1000 * s.length)

\* the artist loop of strong_match from artist i on: the final not_karaoke
RECURSIVE StrongArtistLoop(_, _, _)
StrongArtistLoop(track, i, not_karaoke) ==
    IF i > Len(track.artists) THEN not_karaoke
    ELSE LET nk == not_karaoke /\ ArtistNotKaraoke(track.artists[i])
         IN  IF ~nk THEN nk ELSE StrongArtistLoop(track, i + 1, nk)

StrongNotKaraoke(track) == StrongArtistLoop(track, 1, AlbumNotKaraoke(track))

time_match(s, track) == LengthDiffMs(s, track) <= 1000 * StrongTolerance
album_match(s, track) == In(Lower(s.album), Lower(track.album.name))
year_match(s, track) == s.year = ReleaseYear(track)

\* any([time_match, album_match, year_match]) and not_karaoke
StrongAccepts(s, track) ==
    /\ time_match(s, track) \/ album_match(s, track) \/ year_match(s, track)
    /\ StrongNotKaraoke(track)

\* the track loop of strong_match from track i on: the song after the call and
\* whether the song (TRUE) or None (FALSE) is returned
RECURSIVE StrongLoop(_, _, _)
StrongLoop(s, ts, i) ==
    IF i > Len(ts) THEN [song |-> s, found |-> FALSE]
    ELSE IF StrongAccepts(s, ts[i])
         THEN [song |-> SetKey(s, "uri", ts[i].uri), found |-> TRUE]
         ELSE StrongLoop(s, ts, i + 1)

strong_match(s, ts) == StrongLoop(s, ts, 1)

\* all([word in name for word in key.split(' ')])
AllWordsIn(key, name) ==
    LET words == Split(key, <<" ">>)
    IN  \A w \in 1..Len(words) : In(words[w], name)

\* the artist loop with the karaoke test and its break placed before the
\* assignment of artist_match
RECURSIVE WeakArtistLoopGuardFirst(_, _, _, _, _)
WeakArtistLoopGuardFirst(track, artist, i, am, nk) ==
    IF i > Len(track.artists) THEN [artist_match |-> am, not_karaoke |-> nk]
    ELSE LET d == [title |-> <<>>, artist |-> track.artists[i].name, album |-> <<>>]
             artist_name == clean_tags(d, <<"title", "artist">>)[2]
             am2 == AllWordsIn(artist, artist_name)
             nk2 == nk /\ ArtistNotKaraoke(track.artists[i])
         IN  IF ~nk2 THEN [artist_match |-> am, not_karaoke |-> nk2]
             ELSE IF am2 THEN [artist_match |-> am2, not_karaoke |-> nk2]
             ELSE WeakArtistLoopGuardFirst(track, artist, i + 1, am2, nk2)

\* the artist loop of weak_match from artist i on: the final artist_match and
\* not_karaoke
RECURSIVE WeakArtistLoop(_, _, _, _, _)
WeakArtistLoop(track, artist, i, am, nk) ==
    IF i > Len(track.artists) THEN [artist_match |-> am, not_karaoke |-> nk]
    ELSE LET d == [title |-> <<>>, artist |-> track.artists[i].name, album |-> <<>>]
             artist_name == clean_tags(d, <<"title", "artist">>)[2]
             am2 == AllWordsIn(artist, artist_name)
             nk2 == nk /\ ArtistNotKaraoke(track.artists[i])
         IN  IF am2 \/ ~nk2 THEN [artist_match |-> am2, not_karaoke |-> nk2]
             ELSE WeakArtistLoop(track, artist, i + 1, am2, nk2)

WeakTitleMatch(track, title) ==
    LET d == [title |-> track.name, artist |-> <<>>, album |-> <<>>]
        track_name == clean_tags(d, <<"title", "artist">>)[1]
    IN  AllWordsIn(title, track_name)

\* all([(artist_match or title_match), length_diff < min_length_diff, not_karaoke])
WeakAccepts(s, track, title, artist, minDiffMs) ==
    LET a == WeakArtistLoop(track, artist, 1, TRUE, AlbumNotKaraoke(track))
    IN  /\ a.artist_match \/ WeakTitleMatch(track, title)
        /\ LengthDiffMs(s, track) < minDiffMs
        /\ a.not_karaoke

\* the track loop of weak_match from track i on: the song after the call
RECURSIVE WeakLoop(_, _, _, _, _, _)
WeakLoop(s, ts, title, artist, i, minDiffMs) ==
    IF i > Len(ts) THEN s
    ELSE IF WeakAccepts(s, ts[i], title, artist, minDiffMs)
         THEN WeakLoop(SetKey(s, "uri", ts[i].uri), ts, title, artist, i + 1,
                       LengthDiffMs(s, ts[i]))
         ELSE WeakLoop(s, ts, title, artist, i + 1, minDiffMs)

\* weak_match(song, tracks, title, artist): the song after the call and the
\* returned song.get('uri', None)
weak_match(s, ts, title, artist) ==
    LET s2 == WeakLoop(s, ts, title, artist, 1, 1000 * MinLengthDiff)
    IN  [song |-> s2, ret |-> Get(s2, "uri")]

-----------------------------------------------------------------------------
(* clean_tags applied to a record, then to its own output                  *)

MaxTokens == 2

RawTokens ==
    { <<"T","h","e"," ">>,
      <<"t","h","e"," ">>,
      <<"S","o","n","g">>,
      <<"(","L","i","v","e",")">>,
      <<"?">>,
      <<"e","p">>,
      <<"-">>,
      <<"p","a","r","t"," ">> }

RECURSIVE Concats(_)
Concats(n) ==
    IF n = 0 THEN {<<>>}
    ELSE Concats(n - 1) \cup {x \o tok : x \in Concats(n - 1), tok \in RawTokens}

RawStrings == Concats(MaxTokens)

TagsArgs == {<<"all">>, <<"title">>, <<"title", "artist">>}

CleanIdle == rec = Unset /\ tagsArg = Unset /\ keys1 = Unset /\ keys2 = Unset
MatchIdle == song0 = Unset /\ song = Unset /\ tracks = Unset /\ ret = Unset
SearchIdle == m3u0 = Unset /\ m3u = Unset /\ sa = Unset
SyncIdle ==
    local = Unset /\ spotify = Unset /\ limit = Unset /\ up = Unset /\ calls = Unset

InitClean ==
    /\ phase = "clean0"
    /\ md = Unset /\ env = Unset /\ auth = Unset /\ imp = Unset
    /\ \E x \in RawStrings : rec = [title |-> x, artist |-> x, album |-> x]
    /\ tagsArg \in TagsArgs
    /\ keys1 = Unset /\ keys2 = Unset
    /\ MatchIdle /\ g = Unset /\ SearchIdle /\ SyncIdle

CleanOnce ==
    /\ phase = "clean0"
    /\ keys1' = clean_tags(rec, tagsArg)
    /\ phase' = "clean1"
    /\ UNCHANGED <<md, env, auth, imp, rec, tagsArg, keys2, matchVars, g, searchVars, syncVars>>

CleanAgain ==
    /\ phase = "clean1"
    /\ keys2' = clean_tags([title |-> keys1[1], artist |-> keys1[2], album |-> keys1[3]],
                           tagsArg)
    /\ phase' = "clean2"
    /\ UNCHANGED <<md, env, auth, imp, rec, tagsArg, keys1, matchVars, g, searchVars, syncVars>>

NextClean == CleanOnce \/ CleanAgain

SpecClean == InitClean /\ [][NextClean]_vars

-----------------------------------------------------------------------------
(* strong_match and weak_match applied to a song and a candidate list      *)

MaxTracks == 2

SongA ==
    [ title |-> <<"S","o","n","g">>,
      artist |-> <<"A","b","b","a">>,
      album |-> <<"G","o","l","d">>,
      length |-> 200,
      year |-> 1992 ]

SongQ ==
    [ title |-> <<"?","?","?">>,
      artist |-> <<"A","b","b","a">>,
      album |-> <<"G","o","l","d">>,
      length |-> 200,
      year |-> 1992 ]

SongE ==
    [ title |-> <<"S","o","n","g">>,
      artist |-> <<"A","b","b","a">>,
      album |-> <<>>,
      length |-> 200,
      year |-> 0 ]


MatchSongs == {SongA, SongQ, SongE, SetKey(SongA, "uri", "spotify:track:old")}

\* every signal of strong_match holds
TAll ==
    [ name |-> <<"S","o","n","g">>,
      artists |-> <<[name |-> <<"A","b","b","a">>]>>,
      album |-> [name |-> <<"G","o","l","d">>, release_date |-> <<"1","9","9","2","-","0","9","-","2","1">>],
      duration_ms |-> 203000,
      uri |-> "spotify:track:TAll" ]

\* only the duration is within 20 s
TTime ==
    [ name |-> <<"O","t","h","e","r">>,
      artists |-> <<[name |-> <<"Q","u","e","e","n">>]>>,
      album |-> [name |-> <<"H","i","t","s">>, release_date |-> <<"1","9","8","1">>],
      duration_ms |-> 215000,
      uri |-> "spotify:track:TTime" ]

\* only the release year agrees
TYear ==
    [ name |-> <<"O","t","h","e","r">>,
      artists |-> <<[name |-> <<"Q","u","e","e","n">>]>>,
      album |-> [name |-> <<"H","i","t","s">>, release_date |-> <<"1","9","9","2","-","0","1","-","0","1">>],
      duration_ms |-> 900000,
      uri |-> "spotify:track:TYear" ]

\* the album name holds "karaoke", in mixed case
TKaraokeAlbum ==
    [ name |-> <<"S","o","n","g">>,
      artists |-> <<[name |-> <<"A","b","b","a">>]>>,
      album |-> [name |-> <<"K","a","r","a","o","k","e"," ","G","o","l","d">>, release_date |-> <<"1","9","9","2">>],
      duration_ms |-> 200000,
      uri |-> "spotify:track:TKaraokeAlbum" ]

\* an artist name holds "karaoke"
TKaraokeArtist ==
    [ name |-> <<"S","o","n","g">>,
      artists |-> <<[name |-> <<"K","a","r","a","o","k","e"," ","B","a","n","d">>]>>,
      album |-> [name |-> <<"H","i","t","s">>, release_date |-> <<"2","0","0","5">>],
      duration_ms |-> 201000,
      uri |-> "spotify:track:TKaraokeArtist" ]

\* no signal of strong_match; the title matches, 30 s longer
TWeak30 ==
    [ name |-> <<"S","o","n","g">>,
      artists |-> <<[name |-> <<"Q","u","e","e","n">>]>>,
      album |-> [name |-> <<"H","i","t","s">>, release_date |-> <<"2","0","0","5">>],
      duration_ms |-> 230000,
      uri |-> "spotify:track:TWeak30" ]

\* no signal of strong_match; the second artist matches, 25 s shorter
TWeak25 ==
    [ name |-> <<"O","t","h","e","r">>,
      artists |-> <<[name |-> <<"Q","u","e","e","n">>], [name |-> <<"A","B","B","A">>]>>,
      album |-> [name |-> <<"H","i","t","s">>, release_date |-> <<"2","0","0","5">>],
      duration_ms |-> 175000,
      uri |-> "spotify:track:TWeak25" ]

\* no signal of strong_match; the title matches, 30 s shorter
TWeak30b ==
    [ name |-> <<"S","o","n","g"," ","(","R","e","m","i","x",")">>,
      artists |-> <<[name |-> <<"Q","u","e","e","n">>]>>,
      album |-> [name |-> <<"H","i","t","s">>, release_date |-> <<"2","0","0","5">>],
      duration_ms |-> 170000,
      uri |-> "spotify:track:TWeak30b" ]

\* the title matches, 600 s longer
TFar ==
    [ name |-> <<"S","o","n","g">>,
      artists |-> <<[name |-> <<"A","b","b","a">>]>>,
      album |-> [name |-> <<"H","i","t","s">>, release_date |-> <<"2","0","0","5">>],
      duration_ms |-> 800000,
      uri |-> "spotify:track:TFar" ]

\* neither title nor artist matches
TOther ==
    [ name |-> <<"O","t","h","e","r">>,
      artists |-> <<[name |-> <<"Q","u","e","e","n">>]>>,
      album |-> [name |-> <<"H","i","t","s">>, release_date |-> <<"2","0","0","5">>],
      duration_ms |-> 260000,
      uri |-> "spotify:track:TOther" ]

\* a karaoke album by an artist other than the song's; the title matches
TKaraokeAlbumOther ==
    [ name |-> <<"S","o","n","g">>,
      artists |-> <<[name |-> <<"Q","u","e","e","n">>]>>,
      album |-> [name |-> <<"K","a","r","a","o","k","e"," ","H","i","t","s">>, release_date |-> <<"2","0","0","5">>],
      duration_ms |-> 230000,
      uri |-> "spotify:track:TKaraokeAlbumOther" ]

TrackPool ==
    {TAll, TTime, TYear, TKaraokeAlbum, TKaraokeAlbumOther, TKaraokeArtist, TWeak30, TWeak25, TWeak30b,
     TFar, TOther}

RECURSIVE SeqsUpTo(_, _)
SeqsUpTo(S, n) ==
    IF n = 0 THEN {<<>>}
    ELSE SeqsUpTo(S, n - 1) \cup {Append(q, x) : q \in SeqsUpTo(S, n - 1), x \in S}

InitMatch ==
    /\ phase = "match0"
    /\ md = Unset /\ env = Unset /\ auth = Unset /\ imp = Unset
    /\ song0 \in MatchSongs
    /\ song = song0
    /\ tracks \in SeqsUpTo(TrackPool, MaxTracks)
    /\ ret = Unset
    /\ CleanIdle /\ g = Unset /\ SearchIdle /\ SyncIdle

\* match = self.strong_match(song, tracks)
CallStrongMatch ==
    /\ phase = "match0"
    /\ LET r == strong_match(song, tracks)
       IN  /\ song' = r.song
           /\ ret' = IF r.found THEN SongRef ELSE None
    /\ phase' = "strong"
    /\ UNCHANGED <<md, env, auth, imp, song0, tracks, cleanVars, g, searchVars, syncVars>>

\* match = self.weak_match(song, tracks, title_clean, artist_clean)
CallWeakMatch ==
    /\ phase = "match0"
    /\ LET k == clean_tags(song, <<"all">>)
           r == weak_match(song, tracks, k[1], k[2])
       IN  /\ song' = r.song
           /\ ret' = r.ret
    /\ phase' = "weak"
    /\ UNCHANGED <<md, env, auth, imp, song0, tracks, cleanVars, g, searchVars, syncVars>>

NextMatch == CallStrongMatch \/ CallWeakMatch

SpecMatch == InitMatch /\ [][NextMatch]_vars

-----------------------------------------------------------------------------
(* Spotify.get_uri, one step per statement; the search collaborator answers *)
(* each query with any candidate list                                      *)

MaxResults == 1

DOWNLOADS == <<"d","o","w","n","l","o","a","d","s">>

\* the spec's song of a local-only folder
SongD ==
    [ title |-> <<"S","o","n","g"," ","(","L","i","v","e",")">>,
      artist |-> <<"A","b","b","a">>,
      album |-> <<"d","o","w","n","l","o","a","d","s","/","r","i","p","p","e","d">>,
      length |-> 200,
      year |-> 2020 ]

SearchPool == {TTime, TWeak30, TOther}

\* what self.search(query, authorisation) may return
Responses == SeqsUpTo(SearchPool, MaxResults)

\* line 194 without its test of the album key
SendsAlbumQueryAnyAlbum(results, album_clean) == Len(results) = 0

\* line 194: len(results) == 0 and album_clean[:9] != 'downloads'
SendsAlbumQuery(results, album_clean) ==
    Len(results) = 0 /\ Prefix(album_clean, 9) # DOWNLOADS

\* line 197 with its test dropped
SendsTitleQueryAlways(results) == TRUE

\* line 197: len(results) == 0
SendsTitleQuery(results) == Len(results) = 0

\* lines 202, 206, 209 with the test dropped
TriesNextAlways(match) == TRUE

\* lines 202, 206, 209: match is None
TriesNext(match) == match = None

\* the frame of get_uri(song, authorisation) after line 191
GetUriEntry(s) ==
    [ pc |-> "l192", song |-> s, keys |-> clean_tags(s, <<"all">>),
      results |-> <<>>, results_title |-> <<>>, match |-> None,
      qlog |-> <<>>,        \* the searches sent: line, query, response
      alog |-> <<>> ]       \* the match attempts made, the song's uri before and after

Searched(f, line, q, r) == [f EXCEPT !.qlog = Append(@, [line |-> line, q |-> q, resp |-> r])]

Attempted(f, kind, on, s2) ==
    [f EXCEPT !.song = s2,
              !.alog = Append(@, [kind |-> kind, on |-> on,
                                  pre |-> Get(f.song, "uri"), post |-> Get(s2, "uri")])]

\* line 210 with weak_match working on a copy of the song
WeakOnResultsTitleOnCopy(f) ==
    LET m == weak_match(f.song, f.results_title, f.keys[1], f.keys[2])
    IN  Attempted(f, "weak", "results_title", f.song)

\* line 210: self.weak_match(song, results_title, title_clean, artist_clean);
\* the returned value is dropped, the song dict was updated in place
WeakOnResultsTitle(f) ==
    LET m == weak_match(f.song, f.results_title, f.keys[1], f.keys[2])
    IN  Attempted(f, "weak", "results_title", m.song)

\* the statement at f.pc is a search that is sent
NeedsResponse(f) ==
    \/ f.pc = "l192"
    \/ f.pc = "l194" /\ SendsAlbumQuery(f.results, f.keys[3])
    \/ f.pc = "l197" /\ SendsTitleQuery(f.results)
    \/ f.pc = "l203"

\* the frame after the statement at f.pc, r being the response to its search
GetUriStep(f, r) ==
    CASE f.pc = "l192" ->
           [Searched(f, 192, f.keys[1] \o <<" ">> \o f.keys[2], r)
               EXCEPT !.results = r, !.pc = "l194"]
      [] f.pc = "l194" ->
           IF SendsAlbumQuery(f.results, f.keys[3])
           THEN [Searched(f, 195, f.keys[1] \o <<" ">> \o f.keys[3], r)
                    EXCEPT !.results = r, !.pc = "l197"]
           ELSE [f EXCEPT !.pc = "l197"]
      [] f.pc = "l197" ->
           IF SendsTitleQuery(f.results)
           THEN [Searched(f, 198, f.keys[1], r) EXCEPT !.results = r, !.pc = "l200"]
           ELSE [f EXCEPT !.pc = "l200"]
      [] f.pc = "l200" ->
           LET m == strong_match(f.song, f.results)
               match == IF m.found THEN SongRef ELSE None
           IN  [Attempted(f, "strong", "results", m.song)
                   EXCEPT !.match = match,
                          !.pc = IF TriesNext(match) THEN "l203" ELSE "l212"]
      [] f.pc = "l203" ->
           [Searched(f, 203, f.keys[1], r) EXCEPT !.results_title = r, !.pc = "l204"]
      [] f.pc = "l204" ->
           LET m == strong_match(f.song, f.results_title)
               match == IF m.found THEN SongRef ELSE None
           IN  [Attempted(f, "strong", "results_title", m.song)
                   EXCEPT !.match = match,
                          !.pc = IF TriesNext(match) THEN "l207" ELSE "l212"]
      [] f.pc = "l207" ->
           LET m == weak_match(f.song, f.results, f.keys[1], f.keys[2])
           IN  [Attempted(f, "weak", "results", m.song)
                   EXCEPT !.match = m.ret,
                          !.pc = IF TriesNext(m.ret) THEN "l210" ELSE "l212"]
      [] f.pc = "l210" -> [WeakOnResultsTitle(f) EXCEPT !.pc = "l212"]

\* every frame get_uri can return from, started in frame f
RECURSIVE GetUriRuns(_)
GetUriRuns(f) ==
    IF f.pc = "l212" THEN {f}
    ELSE UNION {GetUriRuns(GetUriStep(f, r)) :
                   r \in IF NeedsResponse(f) THEN Responses ELSE {<<>>}}

GetUriSongs == {SongA, SongQ, SongD}

InitGetUri ==
    /\ phase = "get_uri"
    /\ md = Unset /\ env = Unset /\ auth = Unset /\ imp = Unset
    /\ \E s \in GetUriSongs : g = GetUriEntry(s)
    /\ CleanIdle /\ MatchIdle /\ SearchIdle /\ SyncIdle

\* the next statement of get_uri runs; its search, if it sends one, is answered
GetUriStatement ==
    /\ phase = "get_uri"
    /\ g.pc # "l212"
    /\ \E r \in IF NeedsResponse(g) THEN Responses ELSE {<<>>} : g' = GetUriStep(g, r)
    /\ UNCHANGED <<md, env, auth, imp, phase, cleanVars, matchVars, searchVars, syncVars>>

NextGetUri == GetUriStatement

SpecGetUri == InitGetUri /\ [][NextGetUri]_vars

-----------------------------------------------------------------------------
(* Spotify.search_all: one step per playlist visited, per get_uri call and  *)
(* per playlist collected                                                  *)

MaxSongs == 2

PlaylistNames == {"Rock", "Pop"}

\* songs search_all has to search
UnsearchedSongs == {SongA, SongQ}

\* songs of the library: not yet searched, resolved, searched and not found
LibrarySongs ==
    UnsearchedSongs \cup {SetKey(SongA, "uri", "spotify:track:old"), SetKey(SongA, "uri", None)}

\* the local playlists: a dict of one or two names, each with its list of songs
Libraries ==
    {<<p>> : p \in [name : PlaylistNames, songs : SeqsUpTo(LibrarySongs, MaxSongs)]}
    \cup {<<p, q>> : p \in [name : {"Rock"}, songs : SeqsUpTo(LibrarySongs, MaxSongs)],
                     q \in [name : {"Pop"}, songs : SeqsUpTo(LibrarySongs, MaxSongs)]}

\* the songs get_uri(song, authorisation) can return for a song, over all
\* answers of the search collaborator
GetUriOutcomes ==
    [s \in LibrarySongs \cup {SetKey(u, "uri", None) : u \in UnsearchedSongs} |->
        {f.song : f \in GetUriRuns(GetUriEntry(s))}]

\* line 173 taking uri = None for a missing key
SearchSongsAlsoNone(songs) ==
    SelectSeq([j \in 1..Len(songs) |-> j], LAMBDA j : Get(songs[j], "uri") = None)

\* line 173: [song for song in songs if 'uri' not in song], as positions
SearchSongs(songs) == SelectSeq([j \in 1..Len(songs) |-> j], LAMBDA j : ~HasUri(songs[j]))

\* line 181: [result for result in results[name] if 'uri' not in result]
MissingOf(songs, refs) == SelectSeq(refs, LAMBDA j : ~HasUri(songs[j]))

\* lines 183-184 left out
MarkMissingNothing(songs, missing) == songs

\* lines 183-184: for track in missing[name]: track['uri'] = None
MarkMissing(songs, missing) ==
    [j \in 1..Len(songs) |->
        IF \E k \in 1..Len(missing) : missing[k] = j
        THEN SetKey(songs[j], "uri", None) ELSE songs[j]]

InitSearchAll ==
    /\ phase = "search_all"
    /\ md = Unset /\ env = Unset /\ auth = Unset /\ imp = Unset
    /\ m3u0 \in Libraries
    /\ \A i, k \in 1..Len(m3u0) : m3u0[i].name = m3u0[k].name => i = k
    /\ m3u = m3u0
    /\ sa = [ pc |-> "for", i |-> 1, search_songs |-> <<>>, done |-> 0,
              results |-> <<>>, missing |-> <<>>, searched |-> 0, before |-> m3u0 ]
    /\ CleanIdle /\ MatchIdle /\ g = Unset /\ SyncIdle

\* lines 172-175: the next playlist is taken; it is skipped when none of its
\* songs lacks the uri key
SearchAllFor ==
    /\ phase \in {"search_all", "search_all_again"}
    /\ sa.pc = "for" /\ sa.i <= Len(m3u)
    /\ LET todo == SearchSongs(m3u[sa.i].songs)
       IN  sa' = IF Len(todo) = 0
                 THEN [sa EXCEPT !.i = @ + 1]
                 ELSE [sa EXCEPT !.pc = "get_uri", !.search_songs = todo, !.done = 0]
    /\ UNCHANGED <<md, env, auth, imp, phase, cleanVars, matchVars, g, m3u0, m3u, syncVars>>

\* line 180: one self.get_uri(song, authorisation) of the comprehension
SearchAllGetUri ==
    /\ phase \in {"search_all", "search_all_again"}
    /\ sa.pc = "get_uri" /\ sa.done < Len(sa.search_songs)
    /\ LET j == sa.search_songs[sa.done + 1]
       IN  \E s2 \in GetUriOutcomes[m3u[sa.i].songs[j]] :
              m3u' = [m3u EXCEPT ![sa.i].songs[j] = s2]
    /\ sa' = [sa EXCEPT !.done = @ + 1, !.searched = @ + 1]
    /\ UNCHANGED <<md, env, auth, imp, phase, cleanVars, matchVars, g, m3u0, syncVars>>

\* lines 180-184: results[name] and missing[name] are stored and the missing
\* songs get uri = None
SearchAllCollect ==
    /\ phase \in {"search_all", "search_all_again"}
    /\ sa.pc = "get_uri" /\ sa.done = Len(sa.search_songs)
    /\ LET name == m3u[sa.i].name
           missing == MissingOf(m3u[sa.i].songs, sa.search_songs)
       IN  /\ m3u' = [m3u EXCEPT ![sa.i].songs = MarkMissing(@, missing)]
           /\ sa' = [sa EXCEPT !.pc = "for", !.i = @ + 1,
                               !.results = SetKey(@, name, sa.search_songs),
                               !.missing = SetKey(@, name, missing)]
    /\ UNCHANGED <<md, env, auth, imp, phase, cleanVars, matchVars, g, m3u0, syncVars>>

\* line 188: return results, missing
SearchAllReturn ==
    /\ phase \in {"search_all", "search_all_again"}
    /\ sa.pc = "for" /\ sa.i > Len(m3u)
    /\ sa' = [sa EXCEPT !.pc = "returned"]
    /\ UNCHANGED <<md, env, auth, imp, phase, cleanVars, matchVars, g, m3u0, m3u, syncVars>>

\* search_all(m3u_playlists, authorisation) is called again, on the playlists as
\* the first call left them
SearchAllAgain ==
    /\ phase = "search_all"
    /\ sa.pc = "returned"
    /\ phase' = "search_all_again"
    /\ sa' = [ pc |-> "for", i |-> 1, search_songs |-> <<>>, done |-> 0,
               results |-> <<>>, missing |-> <<>>, searched |-> 0, before |-> m3u ]
    /\ UNCHANGED <<md, env, auth, imp, cleanVars, matchVars, g, m3u0, m3u, syncVars>>

NextSearchAll ==
    SearchAllFor \/ SearchAllGetUri \/ SearchAllCollect \/ SearchAllReturn \/ SearchAllAgain

SpecSearchAll == InitSearchAll /\ [][NextSearchAll]_vars

-----------------------------------------------------------------------------
(* Spotify.update_playlist: one step per playlist taken and per request    *)

MaxRemote == 1
MaxLimit == 2

LocalNames == {"Rock", "rock"}

\* local songs: not searched, not found, resolved to one of two identifiers
SyncSongs ==
    {SongA, SetKey(SongA, "uri", None),
     SetKey(SongA, "uri", "spotify:track:1"), SetKey(SongA, "uri", "spotify:track:2")}

LocalLibraries ==
    {<<p>> : p \in [name : LocalNames, songs : SeqsUpTo(SyncSongs, MaxSongs)]}
    \cup {<<p, q>> : p, q \in [name : LocalNames, songs : SeqsUpTo(SyncSongs, MaxSongs)]}

\* tracks of a remote playlist, as get_track_metadata builds them
RemoteTracks ==
    { [title |-> <<"S","o","n","g">>, artist |-> <<"A","b","b","a">>, album |-> <<"G","o","l","d">>,
       uri |-> "spotify:track:1"],
      [title |-> <<"O","t","h","e","r">>, artist |-> <<"Q","u","e","e","n">>, album |-> <<"H","i","t","s">>,
       uri |-> "spotify:track:3"] }

\* the remote playlists: none, or the one named "Rock"
Remotes ==
    {<<>>} \cup
    {[n \in {"Rock"} |-> [url |-> <<"tracks", n>>, tracks |-> ts]] :
        ts \in SeqsUpTo(RemoteTracks, MaxRemote)}

\* [track['uri'] for track in tracks]
UrisOf(ts) == [k \in 1..Len(ts) |-> ts[k].uri]

\* x in lst
Member(x, lst) == \E k \in 1..Len(lst) : lst[k] = x

\* lines 141-143 without the test against the remote playlist's uris
UriListIgnoringRemote(songs, remote) ==
    UrisOf(SelectSeq(songs, LAMBDA s : HasUri(s) /\ Get(s, "uri") # None))

\* lines 141-143: the uris of the songs with a uri key whose uri is neither in
\* the remote playlist nor None
UriListExisting(songs, remote) ==
    LET spotify_uris == Append(UrisOf(remote.tracks), None)
        keep == SelectSeq(songs, LAMBDA s : HasUri(s) /\ ~Member(Get(s, "uri"), spotify_uris))
    IN  UrisOf(keep)

\* line 149: the uris of the songs whose uri is not None
UriListCreated(songs) ==
    UrisOf(SelectSeq(songs, LAMBDA s : HasUri(s) /\ Get(s, "uri") # None))

\* line 151: len(uri_list) // limit + 1
Requests(uri_list, lim) == (Len(uri_list) \div lim) + 1

\* line 152 with a slice that stops one identifier early
ChunkStoppingEarly(uri_list, lim, i) ==
    SubSeq(uri_list, lim * i + 1,
           (IF lim * (i + 1) < Len(uri_list) THEN lim * (i + 1) ELSE Len(uri_list)) - 1)

\* line 152: uri_list[limit * i: limit * (i + 1)]
Chunk(uri_list, lim, i) ==
    SubSeq(uri_list, lim * i + 1,
           IF lim * (i + 1) < Len(uri_list) THEN lim * (i + 1) ELSE Len(uri_list))

InitUpdatePlaylist ==
    /\ phase = "update_playlist"
    /\ md = Unset /\ env = Unset /\ auth = Unset /\ imp = Unset
    /\ local \in LocalLibraries
    /\ \A i, k \in 1..Len(local) : local[i].name = local[k].name => i = k
    /\ spotify \in Remotes
    /\ limit \in 1..MaxLimit
    /\ up = [pc |-> "enter", i |-> 0, name |-> None, url |-> None, uri_list |-> <<>>, c |-> 0]
    /\ calls = <<>>
    /\ CleanIdle /\ MatchIdle /\ g = Unset /\ SearchIdle

\* lines 132-133: max() of no remote playlist name raises ValueError
UpdatePlaylistEnter ==
    /\ phase = "update_playlist"
    /\ up.pc = "enter"
    /\ up' = IF DOMAIN spotify = {} THEN [up EXCEPT !.pc = "ValueError"]
             ELSE [up EXCEPT !.pc = "for", !.i = Len(local)]
    /\ UNCHANGED <<md, env, auth, imp, phase, cleanVars, matchVars, g, searchVars, local, spotify, limit, calls>>

\* lines 135-149: the next playlist of reversed(m3u.items()) is taken, its
\* uri_list built and, when it has no remote namesake, the playlist created
UpdatePlaylistFor ==
    /\ phase = "update_playlist"
    /\ up.pc = "for" /\ up.i >= 1
    /\ LET name == local[up.i].name
           songs == local[up.i].songs
       IN  IF name \in DOMAIN spotify
           THEN /\ up' = [up EXCEPT !.pc = "post", !.name = name, !.c = 0,
                                    !.url = spotify[name].url,
                                    !.uri_list = UriListExisting(songs, spotify[name])]
                /\ calls' = calls
           ELSE /\ up' = [up EXCEPT !.pc = "post", !.name = name, !.c = 0,
                                    !.url = <<"created", name>>,
                                    !.uri_list = UriListCreated(songs)]
                /\ calls' = Append(calls, [op |-> "create", name |-> name])
    /\ UNCHANGED <<md, env, auth, imp, phase, cleanVars, matchVars, g, searchVars, local, spotify, limit>>

\* lines 151-153: one requests.post of the batch loop; after the last the
\* loop over the playlists goes on
UpdatePlaylistPost ==
    /\ phase = "update_playlist"
    /\ up.pc = "post" /\ up.c < Requests(up.uri_list, limit)
    /\ calls' = Append(calls, [op |-> "add", name |-> up.name, url |-> up.url,
                               uris |-> Chunk(up.uri_list, limit, up.c)])
    /\ up' = IF up.c + 1 < Requests(up.uri_list, limit)
             THEN [up EXCEPT !.c = @ + 1]
             ELSE [up EXCEPT !.c = @ + 1, !.pc = "for", !.i = @ - 1]
    /\ UNCHANGED <<md, env, auth, imp, phase, cleanVars, matchVars, g, searchVars, local, spotify, limit>>

\* the loop over the playlists has ended
UpdatePlaylistReturn ==
    /\ phase = "update_playlist"
    /\ up.pc = "for" /\ up.i = 0
    /\ up' = [up EXCEPT !.pc = "returned"]
    /\ UNCHANGED <<md, env, auth, imp, phase, cleanVars, matchVars, g, searchVars, local, spotify, limit, calls>>

NextUpdatePlaylist ==
    UpdatePlaylistEnter \/ UpdatePlaylistFor \/ UpdatePlaylistPost \/ UpdatePlaylistReturn

SpecUpdatePlaylist == InitUpdatePlaylist /\ [][NextUpdatePlaylist]_vars

-----------------------------------------------------------------------------
(* Spotify.update_uris: one step per playlist taken and per song           *)
(* The call uses local, spotify and up; limit and calls hold nothing.      *)

\* local songs: not searched, not found, with the uri of a remote track, with
\* an identifier no remote playlist holds; and one with a title of its own
StaleSongs ==
    {SongA, SetKey(SongA, "uri", None),
     SetKey(SongA, "uri", "spotify:track:1"),
     SetKey(SongA, "uri", "spotify:track:old1"),
     SetKey(SongA, "uri", "spotify:track:old2"),
     SetKey(SongQ, "uri", "spotify:track:old1"),
     SetKey([SongA EXCEPT !.title = <<"E","l","s","e">>], "uri", "spotify:track:old2")}

\* tracks of the remote playlists, as get_track_metadata builds them
StaleTracks ==
    RemoteTracks \cup
    { [title |-> <<"S","o","n","g"," ","(","L","i","v","e",")">>, artist |-> <<"A","b","b","a">>,
       album |-> <<"L","i","v","e">>, uri |-> "spotify:track:2"] }

\* the local playlists: "Rock", alone or with a playlist "Pop" before or after
StaleLibraries ==
    LET rock == [name : {"Rock"}, songs : SeqsUpTo(StaleSongs, MaxSongs)]
        pop == [name : {"Pop"}, songs : {<<SetKey(SongA, "uri", "spotify:track:old1")>>}]
    IN  {<<p>> : p \in rock} \cup {<<p, q>> : p \in rock, q \in pop}
        \cup {<<q, p>> : p \in rock, q \in pop}

\* the remote playlists: none, "Rock", or "Rock" and "Pop"
StaleRemotes ==
    LET rock == {[url |-> <<"tracks", "Rock">>, tracks |-> ts] :
                    ts \in SeqsUpTo(StaleTracks, MaxRemote + 1)}
        pop == [url |-> <<"tracks", "Pop">>,
                tracks |-> <<CHOOSE t \in RemoteTracks : t.uri = "spotify:track:1">>]
    IN  {<<>>} \cup {[n \in {"Rock"} |-> r] : r \in rock}
        \cup {[n \in {"Rock", "Pop"} |-> IF n = "Rock" THEN r ELSE pop] : r \in rock}

\* line 113: [song['uri'] for song in songs if 'uri' in song]
M3uUris(songs) == UrisOf(SelectSeq(songs, LAMBDA s : HasUri(s)))

\* line 115: the song has a uri that is neither in the remote playlist nor None
IsStale(s, remote) ==
    HasUri(s) /\ ~Member(Get(s, "uri"), Append(UrisOf(remote.tracks), None))

\* line 120 without the test against m3u_uris
TrackTakenAnyway(track, title, m3u_uris) ==
    AllWordsIn(title, clean_tags(track, <<"title">>)[1])

\* lines 118-120: the title matches and the track's uri is not in m3u_uris
TrackTaken(track, title, m3u_uris) ==
    /\ AllWordsIn(title, clean_tags(track, <<"title">>)[1])
    /\ ~Member(track.uri, m3u_uris)

\* lines 117-126: the position of the first track taken from position k on, 0
\* if there is none
RECURSIVE FirstTaken(_, _, _, _)
FirstTaken(ts, title, m3u_uris, k) ==
    IF k > Len(ts) THEN 0
    ELSE IF TrackTaken(ts[k], title, m3u_uris) THEN k
    ELSE FirstTaken(ts, title, m3u_uris, k + 1)

\* lines 122-123 without the assignment of line 124
ReassignedKeepingUri(s, name, uri) ==
    SetKey(SetKey(s, "playlist", name), "old_uri", s.uri)

\* lines 122-124: the song after the update
Reassigned(s, name, uri) ==
    SetKey(SetKey(SetKey(s, "playlist", name), "old_uri", s.uri), "uri", uri)

InitUpdateUris ==
    /\ phase = "update_uris"
    /\ md = Unset /\ env = Unset /\ auth = Unset /\ imp = Unset
    /\ local \in StaleLibraries
    /\ spotify \in StaleRemotes
    /\ up = [pc |-> "enter", i |-> 0, j |-> 0, name |-> None, m3u_uris |-> <<>>,
             updated |-> <<>>, m3u0 |-> local, order |-> <<>>]
    /\ limit = Unset /\ calls = Unset
    /\ CleanIdle /\ MatchIdle /\ g = Unset /\ SearchIdle

\* line 104: max() of no remote playlist name raises ValueError
UpdateUrisEnter ==
    /\ phase = "update_uris"
    /\ up.pc = "enter"
    /\ up' = IF DOMAIN spotify = {} THEN [up EXCEPT !.pc = "ValueError"]
             ELSE [up EXCEPT !.pc = "for", !.i = 1]
    /\ UNCHANGED <<md, env, auth, imp, phase, cleanVars, matchVars, g, searchVars, local, spotify, limit, calls>>

\* lines 106-113: the next playlist of m3u.items() is taken; one with no remote
\* namesake is passed over
UpdateUrisFor ==
    /\ phase = "update_uris"
    /\ up.pc = "for" /\ up.i <= Len(local)
    /\ LET name == local[up.i].name
       IN  up' = IF name \in DOMAIN spotify
                 THEN [up EXCEPT !.pc = "song", !.j = 1, !.name = name,
                                 !.m3u_uris = M3uUris(local[up.i].songs),
                                 !.order = Append(@, name)]
                 ELSE [up EXCEPT !.i = @ + 1, !.order = Append(@, name)]
    /\ UNCHANGED <<md, env, auth, imp, phase, cleanVars, matchVars, g, searchVars, local, spotify, limit, calls>>

\* lines 114-126: one song of the playlist
UpdateUrisSong ==
    /\ phase = "update_uris"
    /\ up.pc = "song" /\ up.j <= Len(local[up.i].songs)
    /\ LET s == local[up.i].songs[up.j]
           ts == spotify[up.name].tracks
           k == FirstTaken(ts, clean_tags(s, <<"title">>)[1], up.m3u_uris, 1)
       IN  IF IsStale(s, spotify[up.name]) /\ k > 0
           THEN /\ local' = [local EXCEPT ![up.i].songs[up.j] = Reassigned(s, up.name, ts[k].uri)]
                /\ up' = [up EXCEPT !.j = @ + 1, !.updated = Append(@, <<up.i, up.j>>)]
           ELSE /\ local' = local
                /\ up' = [up EXCEPT !.j = @ + 1]
    /\ UNCHANGED <<md, env, auth, imp, phase, cleanVars, matchVars, g, searchVars, spotify, limit, calls>>

\* the loop over the songs has ended: on to the next playlist
UpdateUrisNext ==
    /\ phase = "update_uris"
    /\ up.pc = "song" /\ up.j > Len(local[up.i].songs)
    /\ up' = [up EXCEPT !.pc = "for", !.i = @ + 1]
    /\ UNCHANGED <<md, env, auth, imp, phase, cleanVars, matchVars, g, searchVars, local, spotify, limit, calls>>

\* line 129: return {'updated': updated_uris}
UpdateUrisReturn ==
    /\ phase = "update_uris"
    /\ up.pc = "for" /\ up.i > Len(local)
    /\ up' = [up EXCEPT !.pc = "returned"]
    /\ UNCHANGED <<md, env, auth, imp, phase, cleanVars, matchVars, g, searchVars, local, spotify, limit, calls>>

NextUpdateUris ==
    UpdateUrisEnter \/ UpdateUrisFor \/ UpdateUrisSong \/ UpdateUrisNext \/ UpdateUrisReturn

SpecUpdateUris == InitUpdateUris /\ [][NextUpdateUris]_vars

-----------------------------------------------------------------------------
(* Spotify.update_uris followed by Spotify.update_playlist on the same     *)
(* local and remote playlist data                                          *)

\* the local playlists: "Rock", alone or followed by a playlist "Pop"
SyncLibraries ==
    LET rock == [name : {"Rock"}, songs : SeqsUpTo(StaleSongs, MaxSongs)]
        pop == [name |-> "Pop", songs |-> <<SetKey(SongA, "uri", "spotify:track:old1")>>]
    IN  {<<p>> : p \in rock} \cup {<<p, pop>> : p \in rock}

\* the remote playlists: none, "Rock", or "Rock" and "Pop"
SyncRemotes ==
    LET rock == {[url |-> <<"tracks", "Rock">>, tracks |-> ts] :
                    ts \in SeqsUpTo(StaleTracks, MaxRemote)}
        pop == [url |-> <<"tracks", "Pop">>,
                tracks |-> <<CHOOSE t \in RemoteTracks : t.uri = "spotify:track:1">>]
    IN  {<<>>} \cup {[n \in {"Rock"} |-> r] : r \in rock}
        \cup {[n \in {"Rock", "Pop"} |-> IF n = "Rock" THEN r ELSE pop] : r \in rock}

InitUpdateUrisThenPlaylist ==
    /\ phase = "update_uris"
    /\ md = Unset /\ env = Unset /\ auth = Unset /\ imp = Unset
    /\ local \in SyncLibraries
    /\ spotify \in SyncRemotes
    /\ up = [pc |-> "enter", i |-> 0, j |-> 0, name |-> None, m3u_uris |-> <<>>,
             updated |-> <<>>, m3u0 |-> local, order |-> <<>>]
    /\ limit = Unset /\ calls = Unset
    /\ CleanIdle /\ MatchIdle /\ g = Unset /\ SearchIdle

\* line 131: update_playlist is called with the m3u and spotify that
\* update_uris returned from; the songs update_uris changed are remembered
UpdatePlaylistAfterUris ==
    /\ phase = "update_uris"
    /\ up.pc = "returned"
    /\ phase' = "update_playlist"
    /\ \E l \in 1..MaxLimit : limit' = l
    /\ calls' = <<>>
    /\ up' = [pc |-> "enter", i |-> 0, name |-> None, url |-> None, uri_list |-> <<>>,
              c |-> 0, updated |-> up.updated]
    /\ UNCHANGED <<md, env, auth, imp, cleanVars, matchVars, g, searchVars, local, spotify>>

NextUpdateUrisThenPlaylist ==
    NextUpdateUris \/ UpdatePlaylistAfterUris \/ NextUpdatePlaylist

SpecUpdateUrisThenPlaylist ==
    InitUpdateUrisThenPlaylist /\ [][NextUpdateUrisThenPlaylist]_vars

-----------------------------------------------------------------------------
(* Data.get_m3u_metadata: one step per file of a playlist                  *)

MaxFiles == 2

\* the keys of self.filetype_tags
FiletypeTags ==
    {<<".","f","l","a","c">>, <<".","m","p","3">>, <<".","m","4","a">>, <<".","w","m","a">>,
     <<"I","M","A","G","E">>}

\* splitext(path)[1] of the paths of a playlist file
Extensions ==
    {<<".","f","l","a","c">>, <<".","M","P","3">>, <<".","o","g","g">>, <<>>}

\* what mutagen.File does with a path: it returns a file object, it returns
\* None, it raises MutagenError for the path as written and returns a file
\* object for the path as found in all_files, or it raises both times
Loads == {"data", "None", "error_then_data", "error_twice"}

\* the entries of a playlist file
Files == [ext : Extensions, load : Loads]

\* load_file: [returned |-> "None"] for the bare return, else the pair
load_file(f) ==
    LET file_ext == Lower(f.ext)
    IN  IF file_ext \notin FiletypeTags
        THEN [returned |-> "None", file_data |-> None, file_ext |-> <<>>]
        ELSE [returned |-> "pair",
              file_data |-> IF f.load \in {"data", "error_then_data"} THEN "data" ELSE None,
              file_ext |-> file_ext]

\* get_song_metadata, lines 240-242 and 303: unpacking the pair raises
\* TypeError when load_file returned None; there is no record (found is FALSE)
\* without a file object
get_song_metadata(f, position) ==
    LET r == load_file(f)
    IN  IF r.returned = "None"
        THEN [raised |-> "TypeError", found |-> FALSE, record |-> None]
        ELSE IF r.file_data = None \/ r.file_ext = <<>>
        THEN [raised |-> None, found |-> FALSE, record |-> None]
        ELSE [raised |-> None, found |-> TRUE,
              record |-> [position |-> position, path |-> f]]

InitGetM3uMetadata ==
    /\ phase = "get_m3u_metadata"
    /\ \E files \in SeqsUpTo(Files, MaxFiles) :
          md = [pc |-> "files", files |-> files, i |-> 0, playlist_metadata |-> <<>>,
                playlist |-> None]
    /\ env = Unset /\ auth = Unset /\ imp = Unset
    /\ CleanIdle /\ MatchIdle /\ g = Unset /\ SearchIdle /\ SyncIdle

\* lines 148-149: one get_song_metadata(file, i, ...) of the comprehension; an
\* exception it raises ends get_m3u_metadata
GetM3uMetadataFile ==
    /\ phase = "get_m3u_metadata"
    /\ md.pc = "files" /\ md.i < Len(md.files)
    /\ LET r == get_song_metadata(md.files[md.i + 1], md.i)
       IN  md' = IF r.raised # None THEN [md EXCEPT !.pc = r.raised]
                 ELSE [md EXCEPT !.i = @ + 1,
                                 !.playlist_metadata = Append(@, r)]
    /\ UNCHANGED <<phase, cleanVars, matchVars, g, searchVars, syncVars, env, auth, imp>>

\* line 150: playlists[playlist_name] = [song for song in playlist_metadata if song]
GetM3uMetadataStore ==
    /\ phase = "get_m3u_metadata"
    /\ md.pc = "files" /\ md.i = Len(md.files)
    /\ LET kept == SelectSeq(md.playlist_metadata, LAMBDA r : r.found)
       IN  md' = [md EXCEPT !.pc = "returned",
                            !.playlist = [k \in 1..Len(kept) |-> kept[k].record]]
    /\ UNCHANGED <<phase, cleanVars, matchVars, g, searchVars, syncVars, env, auth, imp>>

NextGetM3uMetadata == GetM3uMetadataFile \/ GetM3uMetadataStore

SpecGetM3uMetadata == InitGetM3uMetadata /\ [][NextGetM3uMetadata]_vars

-----------------------------------------------------------------------------
(* Environment.clean_up_env (src/utils/environment.py)                     *)
(* The name of a log file or data folder is a record: cls places it among  *)
(* the names as str comparison does (0: before the digits, as ".gitkeep";  *)
(* 1: a name that starts with a time stamp; 2: after the digits, as        *)
(* "latest"), ts is the time stamp of its first 19 characters, counted in  *)
(* days, and dry tells the suffix "_dry".                                  *)

MaxEntries == 3

Kinds == <<"_log", "_data">>

Stamped(t, dry) == [cls |-> 1, ts |-> t, dry |-> dry]
GitKeep == [cls |-> 0, ts |-> 0, dry |-> 0]
Latest == [cls |-> 2, ts |-> 0, dry |-> 0]

\* what the log folder may hold: one log per run, and a file of another name
LogNames == {Stamped(t, 0) : t \in 1..MaxEntries} \cup {GitKeep}

\* the folders the data folder may hold
DataNames == {Stamped(1, 0), Stamped(1, 1), Stamped(MaxEntries, 0), Latest}

LogFolders == {S \in SUBSET LogNames : Cardinality(S) <= MaxEntries}
DataFolders == SUBSET DataNames

\* a < b as Python compares the two names
NameBefore(a, b) ==
    \/ a.cls < b.cls
    \/ a.cls = b.cls /\ a.ts < b.ts
    \/ a.cls = b.cls /\ a.ts = b.ts /\ a.dry < b.dry

\* line 41: sorted(files_list)
RECURSIVE Sorted(_)
Sorted(S) ==
    IF S = {} THEN <<>>
    ELSE LET m == CHOOSE x \in S : \A y \in S \ {x} : NameBefore(x, y)
         IN  <<m>> \o Sorted(S \ {m})

\* line 35 left out
KeepAsGiven(keep) == keep

\* line 35: keep = 1 if keep < 1 else keep
KeepAtLeastOne(keep) == IF keep < 1 THEN 1 ELSE keep

\* line 45: dt.strptime(file[:19], "%Y-%m-%d_%H.%M.%S") raises ValueError for
\* a name that does not start with a time stamp
Strptime(file) ==
    IF file.cls = 1 THEN [raised |-> None, dt |-> file.ts]
    ELSE [raised |-> "ValueError", dt |-> 0]

\* line 46 with <= for <
IsOldOrOnCutoff(file_dt, now, days) == file_dt <= now - days

\* line 46: file_dt < dt.now() - relativedelta(days=days)
IsOld(file_dt, now, days) == file_dt < now - days

\* the elements of a list
Elems(q) == {q[k] : k \in 1..Len(q)}

InitCleanUpEnv ==
    /\ phase = "clean_up_env"
    /\ \E logs \in LogFolders, data \in DataFolders,
          days \in 0..(MaxEntries - 1), keep \in 0..(MaxEntries - 1) :
          env = [pc |-> "enter", days |-> days, keep |-> keep, keep0 |-> keep,
                 now |-> MaxEntries + 1, now0 |-> MaxEntries + 1,
                 fs |-> [_log |-> logs, _data |-> data],
                 fs0 |-> [_log |-> logs, _data |-> data],
                 current |-> <<>>, remove |-> <<>>, k |-> 0,
                 sorted |-> <<>>, pos |-> 0, remaining |-> 0, remove_list |-> <<>>]
    /\ md = Unset /\ auth = Unset /\ imp = Unset
    /\ CleanIdle /\ MatchIdle /\ g = Unset /\ SearchIdle /\ SyncIdle

\* lines 27-35: the two folders are listed and keep is raised to 1
CleanUpEnvEnter ==
    /\ phase = "clean_up_env"
    /\ env.pc = "enter"
    /\ env' = [env EXCEPT !.pc = "kind", !.k = 1, !.current = env.fs,
                          !.keep = KeepAtLeastOne(@)]
    /\ UNCHANGED <<phase, cleanVars, matchVars, g, searchVars, syncVars, md, auth, imp>>

\* lines 37-41: the next kind is taken; with fewer than keep entries its loop
\* over the names is not entered
CleanUpEnvKind ==
    /\ phase = "clean_up_env"
    /\ env.pc = "kind" /\ env.k <= Len(Kinds)
    /\ LET files_list == env.current[Kinds[env.k]]
       IN  env' = IF Cardinality(files_list) >= env.keep
                  THEN [env EXCEPT !.pc = "file", !.remove_list = <<>>,
                                   !.remaining = Cardinality(files_list),
                                   !.sorted = Sorted(files_list), !.pos = 1]
                  ELSE [env EXCEPT !.pc = "store", !.remove_list = <<>>]
    /\ UNCHANGED <<phase, cleanVars, matchVars, g, searchVars, syncVars, md, auth, imp>>

\* lines 41-48: one name of the sorted list; the clock may have moved on when
\* dt.now() is read
CleanUpEnvFile ==
    /\ phase = "clean_up_env"
    /\ env.pc = "file"
    /\ IF env.pos > Len(env.sorted) \/ env.remaining <= env.keep
       THEN env' = [env EXCEPT !.pc = "store"]
       ELSE LET file == env.sorted[env.pos]
                p == Strptime(file)
            IN  IF p.raised # None
                THEN env' = [env EXCEPT !.pc = p.raised]
                ELSE \E now \in {env.now, env.now0 + 1} :
                        env' = IF IsOld(p.dt, now, env.days)
                               THEN [env EXCEPT !.now = now, !.pos = @ + 1,
                                                !.remove_list = Append(@, file),
                                                !.remaining = @ - 1]
                               ELSE [env EXCEPT !.now = now, !.pos = @ + 1]
    /\ UNCHANGED <<phase, cleanVars, matchVars, g, searchVars, syncVars, md, auth, imp>>

\* line 50: remove[kind] = remove_list
CleanUpEnvStore ==
    /\ phase = "clean_up_env"
    /\ env.pc = "store"
    /\ env' = [env EXCEPT !.pc = IF env.k < Len(Kinds) THEN "kind" ELSE "rm_log",
                          !.k = @ + 1,
                          !.remove = [kind \in DOMAIN @ \cup {Kinds[env.k]} |->
                                         IF kind = Kinds[env.k] THEN env.remove_list ELSE @[kind]]]
    /\ UNCHANGED <<phase, cleanVars, matchVars, g, searchVars, syncVars, md, auth, imp>>

\* lines 52-54: the logs listed for removal are removed
CleanUpEnvRemoveLogs ==
    /\ phase = "clean_up_env"
    /\ env.pc = "rm_log"
    /\ env' = [env EXCEPT !.pc = "rm_data",
                          !.fs = [@ EXCEPT !._log = @ \ Elems(env.remove["_log"])]]
    /\ UNCHANGED <<phase, cleanVars, matchVars, g, searchVars, syncVars, md, auth, imp>>

\* lines 56-58: the data folders listed for removal are removed
CleanUpEnvRemoveData ==
    /\ phase = "clean_up_env"
    /\ env.pc = "rm_data"
    /\ env' = [env EXCEPT !.pc = "returned",
                          !.fs = [@ EXCEPT !._data = @ \ Elems(env.remove["_data"])]]
    /\ UNCHANGED <<phase, cleanVars, matchVars, g, searchVars, syncVars, md, auth, imp>>

NextCleanUpEnv ==
    \/ CleanUpEnvEnter \/ CleanUpEnvKind \/ CleanUpEnvFile \/ CleanUpEnvStore
    \/ CleanUpEnvRemoveLogs \/ CleanUpEnvRemoveData

SpecCleanUpEnv == InitCleanUpEnv /\ [][NextCleanUpEnv]_vars

-----------------------------------------------------------------------------
(* Authorise (src/syncify/authorise.py): auth and refresh_token            *)
(* A token is [none, d]: none tells Python's None, d is the dict otherwise. *)
(* token.json is [exists, json]; json.dump and json.load keep a dict of    *)
(* str keys and str values as it is, and None as null.                     *)

MaxCalls == 2

Bearer == <<"B","e","a","r","e","r">>
AccessTokens == {<<"a","1">>, <<"a","2">>}
RefreshTokens == {<<"r","1">>, <<"r","2">>}

NoToken == [none |-> TRUE, d |-> <<>>]
Dict(d) == [none |-> FALSE, d |-> d]

\* what the token endpoint answers to a user authorisation
UserResponses ==
    {[access_token |-> a, token_type |-> Bearer, refresh_token |-> r] :
        a \in AccessTokens, r \in RefreshTokens}

\* what it answers to a client-credentials authorisation
BasicResponses == {[access_token |-> a, token_type |-> Bearer] : a \in AccessTokens}

\* what it answers when it refuses
ErrorResponses == {[error |-> <<"i","n","v","a","l","i","d">>]}

\* what it answers to a refresh: sometimes with a new refresh token
RefreshResponses == UserResponses \cup BasicResponses \cup ErrorResponses

\* token.json before the first call
TokenFiles ==
    {[exists |-> FALSE, json |-> NoToken]}
    \cup {[exists |-> TRUE, json |-> Dict(d)] :
             d \in {[access_token |-> <<"a","1">>, token_type |-> Bearer, refresh_token |-> <<"r","1">>],
                    [access_token |-> <<"a","1">>, token_type |-> Bearer]}}

\* not self.TOKEN
Falsy(t) == t.none \/ DOMAIN t.d = {}

\* lines 127-139: load_spotify_token
load_spotify_token(file) == IF ~file.exists THEN NoToken ELSE file.json

\* lines 35, 40, 43: the headers of a token, KeyError when a key is missing
Headers(t) ==
    IF {"token_type", "access_token"} \subseteq DOMAIN t.d
    THEN [raised |-> None,
          headers |-> Dict([Authorization |-> t.d.token_type \o <<" ">> \o t.d.access_token])]
    ELSE [raised |-> "KeyError", headers |-> NoToken]

\* lines 52-71 without lines 66-67
RefreshTokenAsReceived(token, auth_response) ==
    IF "refresh_token" \notin DOMAIN token.d
    THEN [raised |-> "KeyError", token |-> NoToken]
    ELSE [raised |-> None, token |-> Dict(auth_response)]

\* lines 52-71: refresh_token, for the token held and the answer of the
\* endpoint; line 60 raises KeyError when the token held has no refresh_token
refresh_token(token, auth_response) ==
    IF "refresh_token" \notin DOMAIN token.d
    THEN [raised |-> "KeyError", token |-> NoToken]
    ELSE [raised |-> None,
          token |-> Dict(IF "refresh_token" \notin DOMAIN auth_response
                         THEN SetKey(auth_response, "refresh_token", token.d.refresh_token)
                         ELSE auth_response)]

\* lines 39 and 42 without lines 40 and 43
RefreshedKeepingHeaders(a, token, auth_response) ==
    [a EXCEPT !.pc = "l45", !.TOKEN = token, !.before = a.TOKEN, !.resp = Dict(auth_response),
              !.src = "refresh", !.refreshes = @ + 1]

\* lines 39-40, 42-43: the refreshed token is kept, then the headers are
\* built from it
Refreshed(a, token, auth_response) ==
    LET h == Headers(token)
        b == [a EXCEPT !.TOKEN = token, !.before = a.TOKEN, !.resp = Dict(auth_response),
                       !.src = "refresh", !.refreshes = @ + 1]
    IN  IF h.raised # None THEN [b EXCEPT !.pc = h.raised]
        ELSE [b EXCEPT !.pc = "l45", !.headers = h.headers]

InitAuth ==
    /\ phase = "auth"
    /\ \E file \in TokenFiles :
          auth = [pc |-> "idle", TOKEN |-> NoToken, headers |-> NoToken, file |-> file,
                  kind |-> None, scopes |-> None, force |-> FALSE, n |-> 0,
                  before |-> NoToken, resp |-> NoToken, src |-> None, file_src |-> "disk",
                  refreshes |-> 0, ret |-> NoToken]
    /\ md = Unset /\ env = Unset /\ imp = Unset
    /\ CleanIdle /\ MatchIdle /\ g = Unset /\ SearchIdle /\ SyncIdle

\* line 18: auth is called, for the first time or again after a call that
\* returned or raised; scopes is None, self.scopes or another list
AuthCall ==
    /\ phase = "auth"
    /\ auth.pc \in {"idle", "returned", "KeyError"} /\ auth.n < MaxCalls
    /\ \E kind \in {"user", "basic"}, scopes \in {None, "self.scopes", "other"}, force \in BOOLEAN :
          auth' = [auth EXCEPT !.pc = "l24", !.kind = kind, !.scopes = scopes, !.force = force,
                               !.n = @ + 1, !.ret = NoToken]
    /\ UNCHANGED <<phase, cleanVars, matchVars, g, searchVars, syncVars, md, env, imp>>

\* lines 24-25: the stored token is loaded when none is held
AuthLoad ==
    /\ phase = "auth"
    /\ auth.pc = "l24"
    /\ auth' = IF Falsy(auth.TOKEN)
               THEN [auth EXCEPT !.pc = "l28", !.TOKEN = load_spotify_token(auth.file),
                                 !.src = IF auth.file.exists THEN auth.file_src ELSE None]
               ELSE [auth EXCEPT !.pc = "l28"]
    /\ UNCHANGED <<phase, cleanVars, matchVars, g, searchVars, syncVars, md, env, imp>>

\* lines 28-32: with no token, other scopes or force, a new token is asked for
AuthReauthorise ==
    /\ phase = "auth"
    /\ auth.pc = "l28"
    /\ IF Falsy(auth.TOKEN) \/ auth.scopes = "other" \/ auth.force
       THEN \E r \in (IF auth.kind = "user" THEN UserResponses ELSE BasicResponses)
                     \cup ErrorResponses :
               auth' = [auth EXCEPT !.pc = "l35", !.TOKEN = Dict(r), !.src = auth.kind]
       ELSE auth' = [auth EXCEPT !.pc = "l35"]
    /\ UNCHANGED <<phase, cleanVars, matchVars, g, searchVars, syncVars, md, env, imp>>

\* line 35: self.headers
AuthHeaders ==
    /\ phase = "auth"
    /\ auth.pc = "l35"
    /\ LET h == Headers(auth.TOKEN)
       IN  auth' = IF h.raised # None THEN [auth EXCEPT !.pc = h.raised]
                   ELSE [auth EXCEPT !.pc = "l38", !.headers = h.headers]
    /\ UNCHANGED <<phase, cleanVars, matchVars, g, searchVars, syncVars, md, env, imp>>

\* lines 38-43: the two test requests; on an error answer the token is
\* refreshed and the headers are built again
AuthTest ==
    /\ phase = "auth"
    /\ auth.pc = "l38"
    /\ \E me_error, markets_error \in BOOLEAN :
          IF (auth.kind = "user" /\ me_error) \/ (~(auth.kind = "user" /\ me_error) /\ markets_error)
          THEN \E auth_response \in RefreshResponses :
                  LET r == refresh_token(auth.TOKEN, auth_response)
                  IN  auth' = IF r.raised # None THEN [auth EXCEPT !.pc = r.raised]
                              ELSE Refreshed(auth, r.token, auth_response)
          ELSE auth' = [auth EXCEPT !.pc = "l45"]
    /\ UNCHANGED <<phase, cleanVars, matchVars, g, searchVars, syncVars, md, env, imp>>

\* line 45 and lines 141-145: save_spotify_token
AuthSave ==
    /\ phase = "auth"
    /\ auth.pc = "l45"
    /\ auth' = [auth EXCEPT !.pc = "l50", !.file = [exists |-> TRUE, json |-> auth.TOKEN],
                            !.file_src = auth.src]
    /\ UNCHANGED <<phase, cleanVars, matchVars, g, searchVars, syncVars, md, env, imp>>

\* line 50: return self.headers
AuthReturn ==
    /\ phase = "auth"
    /\ auth.pc = "l50"
    /\ auth' = [auth EXCEPT !.pc = "returned", !.ret = auth.headers]
    /\ UNCHANGED <<phase, cleanVars, matchVars, g, searchVars, syncVars, md, env, imp>>

NextAuth ==
    \/ AuthCall \/ AuthLoad \/ AuthReauthorise \/ AuthHeaders \/ AuthTest
    \/ AuthSave \/ AuthReturn

SpecAuth == InitAuth /\ [][NextAuth]_vars

-----------------------------------------------------------------------------
(* Data.import_uri (src/syncify/data.py): one step per song                *)
(* The stored file is [exists, json]; json maps an album name to the list  *)
(* of its [name, uri] members in the order of the file.                    *)

\* paths of local songs, as get_song_metadata stores them
ImportPaths ==
    {<<"/","m","/","S","o","n","g",".","m","p","3">>,
     <<"/","m",".","d","/"," ","E","l","s","e"," ",".","f","l","a","c">>}

\* the songs: with and without an album, not searched, not found, resolved
ImportSongs ==
    LET bare == {[path |-> p, album |-> <<"G","o","l","d">>] : p \in ImportPaths}
                \cup {[path |-> p] : p \in ImportPaths}
    IN  bare \cup {SetKey(s, "uri", u) : s \in bare, u \in {None, "spotify:track:1"}}

\* the local playlists: "Rock", alone or followed by a playlist "Pop"
ImportLibraries ==
    LET rock == [name : {"Rock"}, songs : SeqsUpTo(ImportSongs, MaxSongs)]
        pop == [name |-> "Pop",
                songs |-> <<[path |-> <<"/","m","/","S","o","n","g",".","m","p","3">>,
                             album |-> <<"G","o","l","d">>]>>]
    IN  {<<p>> : p \in rock} \cup {<<p, pop>> : p \in rock}

\* the stored file: absent, or one of a few contents
StoredFiles ==
    LET Gold == <<"G","o","l","d">>
        stem == <<"s","o","n","g">>
        other == <<"e","l","s","e">>
    IN  {[exists |-> FALSE, json |-> <<>>],
         [exists |-> TRUE, json |-> <<>>],
         [exists |-> TRUE,
          json |-> [a \in {Gold} |-> <<[name |-> stem, uri |-> "spotify:track:9"],
                                       [name |-> other, uri |-> None]>>]],
         [exists |-> TRUE,
          json |-> [a \in {Gold} |-> <<[name |-> <<" ","S","o","n","g">>, uri |-> "spotify:track:8"],
                                       [name |-> stem, uri |-> "spotify:track:9"],
                                       [name |-> <<"S","O","N","G"," ">>, uri |-> "spotify:track:7"]>>]],
         [exists |-> TRUE,
          json |-> [a \in {<<"g","o","l","d">>, <<"H","i","t","s">>} |->
                       <<[name |-> stem, uri |-> "spotify:track:9"],
                         [name |-> other, uri |-> "spotify:track:8"]>>]]}

\* the last position of character c in s, 0 if there is none
LastIndexOf(s, c) ==
    LET at == {i \in 1..Len(s) : s[i] = c}
    IN  IF at = {} THEN 0 ELSE CHOOSE i \in at : \A k \in at : k <= i

\* os.path.basename(p)
Basename(p) == SubSeq(p, LastIndexOf(p, "/") + 1, Len(p))

\* os.path.splitext(name)[0] of a name without separator: the last dot
\* starts the extension unless only dots come before it
SplitextRoot(name) ==
    LET d == LastIndexOf(name, ".")
    IN  IF d > 0 /\ \E i \in 1..(d - 1) : name[i] # "."
        THEN SubSeq(name, 1, d - 1)
        ELSE name

\* line 333 and the key of line 337: the lower-cased, stripped filename
ImportKey(s) == Strip(Lower(SplitextRoot(Basename(s.path))))

\* line 334: uri.get(song.get('album'), {}).items()
StoredMembers(json, s) ==
    IF "album" \in DOMAIN s /\ s.album \in DOMAIN json THEN json[s.album] ELSE <<>>

\* line 334: the positions of the members whose key k.lower().strip() is key
KeyedAt(members, key) == {i \in 1..Len(members) : Strip(Lower(members[i].name)) = key}

\* line 329 with a test that lets songs holding None through
SkipsOnlyResolved(s, refresh) == HasUri(s) /\ s.uri # None /\ ~refresh

\* line 329: 'uri' in song and not refresh
Skips(s, refresh) == HasUri(s) /\ ~refresh

\* lines 329-338: the song after its turn; of members with the same key the
\* last one of the file stays in the dict of line 334
ImportedSong(s, json, refresh) ==
    IF Skips(s, refresh) THEN s
    ELSE LET members == StoredMembers(json, s)
             at == KeyedAt(members, ImportKey(s))
         IN  IF at = {} THEN s
             ELSE SetKey(s, "uri", members[CHOOSE i \in at : \A k \in at : k <= i].uri)

InitImportUri ==
    /\ phase = "import_uri"
    /\ \E lib \in ImportLibraries, stored \in StoredFiles, refresh \in BOOLEAN :
          imp = [pc |-> "enter", local |-> lib, local0 |-> lib, stored |-> stored,
                 refresh |-> refresh, p |-> 0, j |-> 0, ret |-> None]
    /\ md = Unset /\ env = Unset /\ auth = Unset
    /\ CleanIdle /\ MatchIdle /\ g = Unset /\ SearchIdle /\ SyncIdle

\* lines 315-324: without the stored file local is returned at once
ImportUriEnter ==
    /\ phase = "import_uri"
    /\ imp.pc = "enter"
    /\ imp' = IF ~imp.stored.exists THEN [imp EXCEPT !.pc = "returned", !.ret = "local"]
              ELSE [imp EXCEPT !.pc = "song", !.p = 1, !.j = 1]
    /\ UNCHANGED <<phase, cleanVars, matchVars, g, searchVars, syncVars, md, env, auth>>

\* lines 326-340: the next song of the playlists in turn
ImportUriSong ==
    /\ phase = "import_uri"
    /\ imp.pc = "song" /\ imp.p <= Len(imp.local)
    /\ IF imp.j > Len(imp.local[imp.p].songs)
       THEN imp' = [imp EXCEPT !.p = @ + 1, !.j = 1]
       ELSE LET s == imp.local[imp.p].songs[imp.j]
                t == ImportedSong(s, imp.stored.json, imp.refresh)
            IN  imp' = [imp EXCEPT !.local[imp.p].songs[imp.j] = t, !.j = @ + 1]
    /\ UNCHANGED <<phase, cleanVars, matchVars, g, searchVars, syncVars, md, env, auth>>

\* line 343: return local
ImportUriReturn ==
    /\ phase = "import_uri"
    /\ imp.pc = "song" /\ imp.p > Len(imp.local)
    /\ imp' = [imp EXCEPT !.pc = "returned", !.ret = "local"]
    /\ UNCHANGED <<phase, cleanVars, matchVars, g, searchVars, syncVars, md, env, auth>>

NextImportUri == ImportUriEnter \/ ImportUriSong \/ ImportUriReturn

SpecImportUri == InitImportUri /\ [][NextImportUri]_vars

-----------------------------------------------------------------------------
(* Properties of clean_tags                                                *)

\* C2: clean_tags is idempotent: applied to a record whose title, artist and
\* album are already its output, it returns the same three keys.
C2_CleanTagsIdempotent == phase = "clean2" => keys2 = keys1

-----------------------------------------------------------------------------
(* Properties of strong_match and weak_match                               *)

MinOf(S) == CHOOSE i \in S : \A k \in S : i <= k

\* "karaoke" occurs, in any case, in the album name or in an artist name
NamesKaraoke(track) ==
    \/ In(KARAOKE, Lower(track.album.name))
    \/ \E a \in 1..Len(track.artists) : In(KARAOKE, Lower(track.artists[a].name))

\* the karaoke guard of the specification: neither the album name nor the
\* normalised key of an artist name holds "karaoke" or "backing"
KaraokeGuard(track) ==
    /\ AlbumNotKaraoke(track)
    /\ \A a \in 1..Len(track.artists) :
          /\ ~In(KARAOKE, CleanArtist(track.artists[a].name))
          /\ ~In(BACKING, CleanArtist(track.artists[a].name))

\* the karaoke guard as the two matchers evaluate it
CodedGuard(track) ==
    /\ AlbumNotKaraoke(track)
    /\ \A a \in 1..Len(track.artists) : ArtistNotKaraoke(track.artists[a])

\* one of the three signals of Phase 1
AnySignal(s, track) ==
    \/ Abs(track.duration_ms - 1000 * s.length) <= 20000
    \/ In(Lower(s.album), Lower(track.album.name))
    \/ s.year = ReleaseYear(track)

\* C1: neither strong_match nor weak_match sets the song's uri to a candidate
\* whose album name or one of whose artist names contains "karaoke".
C1_KaraokeNeverSelected ==
    phase \in {"strong", "weak"} =>
        \A i \in 1..Len(tracks) :
            NamesKaraoke(tracks[i]) => ~(HasUri(song) /\ song.uri = tracks[i].uri)

\* strong_match picks the first track that passes guard(_) and has a signal
StrongPicksFirst(guard(_)) ==
    phase = "strong" =>
        LET Q == {i \in 1..Len(tracks) : guard(tracks[i]) /\ AnySignal(song0, tracks[i])}
        IN  IF Q = {} THEN ret = None /\ song = song0
            ELSE /\ song = SetKey(song0, "uri", tracks[MinOf(Q)].uri)
                 /\ ret = SongRef

\* C4: strong_match sets the uri to the first track, in list order, whose
\* karaoke guard passes and one of whose three signals holds, and returns the
\* song; with no such track it returns None and leaves the song unchanged.
C4_StrongFirstQualifying == StrongPicksFirst(KaraokeGuard)

\* the statement of C4 with the guard as strong_match evaluates it
StrongFirstQualifyingAsCoded == StrongPicksFirst(CodedGuard)

\* the candidate qualifies for Phase 2
WeakQualifies(s, track, guard(_)) ==
    /\ \/ \E a \in 1..Len(track.artists) :
             AllWordsIn(CleanArtist(s.artist), CleanArtist(track.artists[a].name))
       \/ AllWordsIn(CleanTitle(s.title), CleanTitle(track.name))
    /\ guard(track)
    /\ Abs(track.duration_ms - 1000 * s.length) < 600000

\* weak_match leaves the uri of the qualifying track of least length_diff,
\* the earliest of them
WeakPicksBest(guard(_)) ==
    phase = "weak" /\ ~HasUri(song0) =>
        LET Q == {i \in 1..Len(tracks) : WeakQualifies(song0, tracks[i], guard)}
            diff(i) == Abs(tracks[i].duration_ms - 1000 * song0.length)
            B == {i \in Q : \A k \in Q : diff(i) <= diff(k)}
        IN  IF Q = {} THEN ~HasUri(song) /\ ret = None /\ song = song0
            ELSE /\ song = SetKey(song0, "uri", tracks[MinOf(B)].uri)
                 /\ ret = tracks[MinOf(B)].uri

\* C5: weak_match leaves the uri of the qualifying candidate (artist or title
\* match, karaoke guard passes, length_diff < 600 s) of least length_diff,
\* whatever the list order, the earliest on a tie; with none the uri key stays
\* absent and None is returned.
C5_WeakRunningMinimum == WeakPicksBest(KaraokeGuard)

\* the statement of C5 with the guard as weak_match evaluates it
WeakRunningMinimumAsCoded == WeakPicksBest(CodedGuard)

-----------------------------------------------------------------------------
(* Properties of get_uri                                                   *)

AttemptOrder ==
    << [kind |-> "strong", on |-> "results"], [kind |-> "strong", on |-> "results_title"],
       [kind |-> "weak", on |-> "results"], [kind |-> "weak", on |-> "results_title"] >>

\* C6: the match attempts run in the order strong_match(results),
\* strong_match(results_title), weak_match(results), weak_match(results_title);
\* an attempt runs exactly when every earlier one found nothing, none runs
\* after one has set the uri, and the uri an attempt set is the song's uri.
C6_AttemptsInOrder ==
    phase = "get_uri" =>
        /\ Len(g.alog) <= Len(AttemptOrder)
        /\ \A i \in 1..Len(g.alog) :
              /\ g.alog[i].kind = AttemptOrder[i].kind
              /\ g.alog[i].on = AttemptOrder[i].on
              /\ g.alog[i].pre = None
              /\ g.alog[i].post # None =>
                    i = Len(g.alog) /\ Get(g.song, "uri") = g.alog[i].post
        /\ g.pc = "l212" =>
              \/ Len(g.alog) = Len(AttemptOrder)
              \/ g.alog[Len(g.alog)].post # None

\* the second attempt found a match the first had not found
C6_Witness ==
    /\ phase = "get_uri" /\ g.pc = "l212"
    /\ Len(g.alog) = 2
    /\ g.alog[1].post = None /\ g.alog[2].post # None

\* the searches that build `results` (lines 192 to 198)
ResultQueries(f) == SelectSeq(f.qlog, LAMBDA e : e.line \in {192, 195, 198})

\* the response of the first of the queries qs that returned a candidate
RECURSIVE FirstNonEmpty(_)
FirstNonEmpty(qs) ==
    IF qs = <<>> THEN <<>>
    ELSE IF Head(qs).resp # <<>> THEN Head(qs).resp
    ELSE FirstNonEmpty(Tail(qs))

\* C8: the queries are sent in the order 'title artist', 'title album',
\* 'title'; the second only if the first returned nothing, the third only if
\* no earlier one returned a candidate; `results` is the response of the first
\* query that returned a candidate, and empty if none did.
C8_QueriesInOrder ==
    phase = "get_uri" =>
        LET qs == ResultQueries(g)
            title == CleanTitle(g.song.title)
            artist == CleanArtist(g.song.artist)
            album == CleanAlbum(g.song.album)
        IN  /\ \A i \in 1..Len(qs) :
                  /\ \A k \in 1..(i - 1) : qs[k].line < qs[i].line /\ qs[k].resp = <<>>
                  /\ qs[i].line = 192 => qs[i].q = title \o <<" ">> \o artist
                  /\ qs[i].line = 195 => qs[i].q = title \o <<" ">> \o album
                  /\ qs[i].line = 198 => qs[i].q = title
            /\ g.pc # "l192" => qs # <<>> /\ qs[1].line = 192
            /\ g.pc \notin {"l192", "l194", "l197"} =>
                  /\ g.results = FirstNonEmpty(qs)
                  /\ g.results = <<>> => qs[Len(qs)].line = 198

\* the 'title artist' query came back empty and a later query gave `results`
C8_Witness ==
    /\ phase = "get_uri" /\ g.pc = "l200"
    /\ Len(ResultQueries(g)) = 3
    /\ g.results # <<>>

\* C9: for a song whose normalised album key begins with 'downloads' the
\* 'title album' query is never sent.
C9_NoAlbumQueryForDownloads ==
    phase = "get_uri" /\ StartsAt(CleanAlbum(g.song.album), DOWNLOADS, 1) =>
        \A i \in 1..Len(g.qlog) : g.qlog[i].line # 195

\* the song of album 'downloads/ripped' got no candidate for 'title artist'
\* and get_uri went on to the 'title' query
C9_Witness ==
    /\ phase = "get_uri" /\ g.pc = "l200"
    /\ g.song.album = SongD.album
    /\ Len(g.qlog) = 2
    /\ g.qlog[1].resp = <<>> /\ g.qlog[2].line = 198

-----------------------------------------------------------------------------
(* Properties of search_all                                                *)

\* the positions of playlist p whose songs had no uri key on entry
Attempted0(p) == {j \in 1..Len(m3u0[p].songs) : ~HasUri(m3u0[p].songs[j])}

\* the members of the set of positions S, in increasing order
RECURSIVE Ascending(_)
Ascending(S) ==
    IF S = {} THEN <<>>
    ELSE LET m == CHOOSE j \in S : \A k \in S : k <= j
         IN  Append(Ascending(S \ {m}), m)

\* C3: a song whose title normalises to the empty key is never matched:
\* get_uri resolves no identifier for it and search_all marks it uri = None.
C3_EmptyTitleNeverMatched ==
    phase = "search_all" /\ sa.pc = "returned" =>
        \A p \in 1..Len(m3u) : \A j \in Attempted0(p) :
            CleanTitle(m3u0[p].songs[j].title) = <<>> => Get(m3u[p].songs[j], "uri") = None

\* C7: after search_all every song that had no uri key on entry has the key,
\* with an identifier or None, and `missing` lists exactly the attempted songs
\* whose uri is None.
C7_AttemptedSongsGetKey ==
    phase = "search_all" /\ sa.pc = "returned" =>
        \A p \in 1..Len(m3u) :
            /\ \A j \in Attempted0(p) : HasUri(m3u[p].songs[j])
            /\ IF Attempted0(p) = {} THEN m3u[p].name \notin DOMAIN sa.missing
               ELSE /\ m3u[p].name \in DOMAIN sa.missing
                    /\ sa.missing[m3u[p].name] =
                          Ascending({j \in Attempted0(p) : m3u[p].songs[j].uri = None})

\* search_all has returned; one attempted song was resolved and another of the
\* same playlist was not found
C7_Witness ==
    /\ phase = "search_all" /\ sa.pc = "returned"
    /\ \E p \in 1..Len(m3u) : \E j, k \in Attempted0(p) :
          /\ m3u[p].songs[j].uri = None
          /\ m3u[p].songs[k].uri # None

-----------------------------------------------------------------------------
(* Properties of update_playlist                                           *)

\* the identifiers submitted so far for the playlist called name, in call order
RECURSIVE SubmittedIn(_, _)
SubmittedIn(cs, name) ==
    IF cs = <<>> THEN <<>>
    ELSE (IF Head(cs).op = "add" /\ Head(cs).name = name THEN Head(cs).uris ELSE <<>>)
         \o SubmittedIn(Tail(cs), name)

\* the uris of songs[j..], in order, of the songs whose uri key is present, is
\* not None and is not in the set remote
RECURSIVE NewUrisFrom(_, _, _)
NewUrisFrom(songs, j, remote) ==
    IF j > Len(songs) THEN <<>>
    ELSE (IF HasUri(songs[j]) /\ songs[j].uri # None /\ songs[j].uri \notin remote
          THEN <<songs[j].uri>> ELSE <<>>)
         \o NewUrisFrom(songs, j + 1, remote)

RemoteUris(name) == {spotify[name].tracks[k].uri : k \in 1..Len(spotify[name].tracks)}

\* C10: for a local playlist whose name exists remotely, update_playlist
\* submits exactly the uris, in local order, of the songs whose uri key is
\* present, is not None and is not a uri of the remote playlist; it never
\* submits None or an identifier the remote playlist already holds.
C10_SubmitsExactlyNewUris ==
    phase = "update_playlist" =>
        \A p \in 1..Len(local) :
            LET name == local[p].name
            IN  name \in DOMAIN spotify =>
                  /\ \A c \in 1..Len(calls) :
                        calls[c].name = name =>
                          /\ calls[c].op = "add" /\ calls[c].url = spotify[name].url
                          /\ \A k \in 1..Len(calls[c].uris) :
                                /\ calls[c].uris[k] # None
                                /\ calls[c].uris[k] \notin RemoteUris(name)
                  /\ up.pc = "returned" =>
                        SubmittedIn(calls, name) =
                            NewUrisFrom(local[p].songs, 1, RemoteUris(name))

\* update_playlist has returned; of an existing playlist it submitted one song
\* and left out another, whose uri the remote playlist holds
C10_Witness ==
    /\ phase = "update_playlist" /\ up.pc = "returned"
    /\ \E p \in 1..Len(local) :
          /\ local[p].name \in DOMAIN spotify
          /\ SubmittedIn(calls, local[p].name) # <<>>
          /\ \E j \in 1..Len(local[p].songs) :
                /\ HasUri(local[p].songs[j])
                /\ local[p].songs[j].uri \in RemoteUris(local[p].name)

\* update_playlist has come to its end: it returned or it raised
UpdatePlaylistEnded == phase = "update_playlist" /\ up.pc \in {"returned", "ValueError"}

\* the positions in cs of the calls of kind op made for the playlist called name
CallsOf(cs, op, name) == {c \in 1..Len(cs) : cs[c].op = op /\ cs[c].name = name}

\* the playlist called name was created exactly once, before every request that
\* adds to it, and the uris added are those of songs that are not None, in order
CreatedThenFilled(name, songs) ==
    /\ Cardinality(CallsOf(calls, "create", name)) = 1
    /\ \A c \in CallsOf(calls, "create", name) : \A a \in CallsOf(calls, "add", name) : c < a
    /\ \A a \in CallsOf(calls, "add", name) : calls[a].url = <<"created", name>>
    /\ SubmittedIn(calls, name) = NewUrisFrom(songs, 1, {})

\* C11: for a local playlist whose name is not in the remote set,
\* update_playlist calls create_playlist exactly once, before any request that
\* adds to the playlist, and then submits every uri of the playlist that is
\* not None, in local order.
C11_CreatesOnceThenSubmitsAll ==
    UpdatePlaylistEnded =>
        \A p \in 1..Len(local) :
            local[p].name \notin DOMAIN spotify =>
                CreatedThenFilled(local[p].name, local[p].songs)

\* the same when at least one remote playlist exists, so that line 133 does
\* not raise
CreatesOnceWhenRemoteNonEmpty ==
    (UpdatePlaylistEnded /\ DOMAIN spotify # {}) =>
        \A p \in 1..Len(local) :
            local[p].name \notin DOMAIN spotify =>
                CreatedThenFilled(local[p].name, local[p].songs)

\* the smaller of two numbers
Least(a, b) == IF a < b THEN a ELSE b

\* C12: the requests update_playlist makes for one playlist each carry at most
\* limit identifiers, and the batches put together in call order are the
\* identifier list: after c requests its first limit * c identifiers, at the
\* end of the batch loop the whole list.
C12_BatchesPartitionList ==
    phase = "update_playlist" =>
        /\ \A c \in 1..Len(calls) : calls[c].op = "add" => Len(calls[c].uris) <= limit
        /\ up.pc = "post" =>
              SubmittedIn(calls, up.name) =
                  SubSeq(up.uri_list, 1, Least(limit * up.c, Len(up.uri_list)))
        /\ (up.pc \in {"for", "returned"} /\ up.name # None) =>
              SubmittedIn(calls, up.name) = up.uri_list

\* the batch loop of a playlist has ended whose identifier list is longer than
\* limit, so that it was sent in more than one batch
C12_Witness ==
    /\ phase = "update_playlist" /\ up.pc \in {"for", "returned"} /\ up.name # None
    /\ Len(up.uri_list) > limit
    /\ \E a, b \in CallsOf(calls, "add", up.name) :
          a < b /\ calls[a].uris # <<>> /\ calls[b].uris # <<>>

\* ceil(n / lim)
CeilDiv(n, lim) == (n + lim - 1) \div lim

\* C13: for n >= 1 identifiers to append update_playlist makes exactly
\* ceil(n / limit) requests for the playlist, each carrying at least one
\* identifier.
C13_CeilRequestsNoneEmpty ==
    (phase = "update_playlist" /\ up.pc \in {"for", "returned"} /\ up.name # None
        /\ Len(up.uri_list) >= 1) =>
        /\ Cardinality(CallsOf(calls, "add", up.name)) = CeilDiv(Len(up.uri_list), limit)
        /\ \A a \in CallsOf(calls, "add", up.name) : calls[a].uris # <<>>

\* the same for identifier lists whose length is not a multiple of limit
CeilRequestsWhenNotMultiple ==
    (phase = "update_playlist" /\ up.pc \in {"for", "returned"} /\ up.name # None
        /\ Len(up.uri_list) >= 1 /\ Len(up.uri_list) % limit # 0) =>
        /\ Cardinality(CallsOf(calls, "add", up.name)) = CeilDiv(Len(up.uri_list), limit)
        /\ \A a \in CallsOf(calls, "add", up.name) : calls[a].uris # <<>>

-----------------------------------------------------------------------------
(* Properties of update_uris                                               *)

\* the positions <<playlist, song>> of the songs update_uris has changed
UpdatedAt == {up.updated[n] : n \in 1..Len(up.updated)}

\* C14: update_uris never gives a song the identifier of a remote track that
\* another song of the same playlist holds, an identifier assigned earlier in
\* the same call included: no two songs of a playlist are reassigned to the
\* same remote track, and no reassigned song shares its uri with another song
\* of its playlist.
C14_NoDuplicateReassignment ==
    phase = "update_uris" =>
        \A x \in UpdatedAt :
            \A k \in 1..Len(local[x[1]].songs) :
                (k # x[2] /\ HasUri(local[x[1]].songs[k])) =>
                    local[x[1]].songs[k].uri # local[x[1]].songs[x[2]].uri

\* what line 120 does ensure: a reassigned song never gets an identifier that a
\* song of its playlist held when the call began
NeverTakesUriHeldOnEntry ==
    phase = "update_uris" =>
        \A x \in UpdatedAt :
            \A k \in 1..Len(up.m3u0[x[1]].songs) :
                HasUri(up.m3u0[x[1]].songs[k]) =>
                    up.m3u0[x[1]].songs[k].uri # local[x[1]].songs[x[2]].uri

\* the positions of the tracks of the remote playlist of playlist p whose
\* normalised title contains every token of the normalised title of song s
TitleMatches(p, s) ==
    LET ts == spotify[up.m3u0[p].name].tracks
    IN  {k \in 1..Len(ts) : AllWordsIn(CleanTitle(s.title), CleanTitle(ts[k].title))}

\* the positions of the tracks of the remote playlist of playlist p whose uri
\* no song of p held when the call began
Unclaimed(p) ==
    LET ts == spotify[up.m3u0[p].name].tracks
        held == {up.m3u0[p].songs[k].uri :
                    k \in {n \in 1..Len(up.m3u0[p].songs) : HasUri(up.m3u0[p].songs[n])}}
    IN  {k \in 1..Len(ts) : ts[k].uri \notin held}

\* song s of playlist p has a uri that is not None and not a uri of the remote
\* playlist of the same name
UriGone(p, s) ==
    /\ up.m3u0[p].name \in DOMAIN spotify
    /\ HasUri(s) /\ s.uri # None
    /\ \A k \in 1..Len(spotify[up.m3u0[p].name].tracks) :
          spotify[up.m3u0[p].name].tracks[k].uri # s.uri

\* update_uris returned and 'updated' holds exactly the songs it changed, each
\* once
UpdatedAreTheChanged ==
    /\ \A p \in 1..Len(local) : \A j \in 1..Len(local[p].songs) :
          (local[p].songs[j] # up.m3u0[p].songs[j]) <=> (<<p, j>> \in UpdatedAt)
    /\ Cardinality(UpdatedAt) = Len(up.updated)

\* a changed song carries its old uri and the uri of track k of the remote
\* playlist; nothing else of it changed but the playlist name it is given
ChangedTo(p, j, k) ==
    LET before == up.m3u0[p].songs[j]
        name == up.m3u0[p].name
    IN  local[p].songs[j] =
            SetKey(SetKey(SetKey(before, "playlist", name), "old_uri", before.uri),
                   "uri", spotify[name].tracks[k].uri)

\* C15: update_uris changes a song only if its uri key is present, not None and
\* absent from the remote playlist of the same name; a changed song has
\* old_uri = its uri before the call and as new uri that of the first remote
\* track whose normalised title contains every token of the song's normalised
\* title; 'updated' holds exactly the changed songs, every other song is left
\* unchanged.
C15_ChangesStaleToFirstTitleMatch ==
    (phase = "update_uris" /\ up.pc = "returned") =>
        /\ UpdatedAreTheChanged
        /\ \A p \in 1..Len(local) : \A j \in 1..Len(local[p].songs) :
              LET before == up.m3u0[p].songs[j]
              IN  local[p].songs[j] # before =>
                      /\ UriGone(p, before)
                      /\ TitleMatches(p, before) # {}
                      /\ ChangedTo(p, j, MinOf(TitleMatches(p, before)))

\* C15 as the code has it: the new uri is that of the first remote track whose
\* title matches and whose uri no song of the playlist held when the call
\* began; a song is changed exactly when its uri is gone and there is such a
\* track.
C15_ChangesStaleToFirstUnclaimedMatch ==
    (phase = "update_uris" /\ up.pc = "returned") =>
        /\ UpdatedAreTheChanged
        /\ \A p \in 1..Len(local) : \A j \in 1..Len(local[p].songs) :
              LET before == up.m3u0[p].songs[j]
                  taken == IF up.m3u0[p].name \in DOMAIN spotify
                           THEN TitleMatches(p, before) \cap Unclaimed(p) ELSE {}
              IN  IF UriGone(p, before) /\ taken # {}
                  THEN ChangedTo(p, j, MinOf(taken))
                  ELSE local[p].songs[j] = before

\* update_uris returned after changing a song to a track that is not the first
\* one whose title matches, the first being held by another song, which it
\* left alone
C15_Witness ==
    /\ phase = "update_uris" /\ up.pc = "returned"
    /\ \E p \in 1..Len(local) : \E j, n \in 1..Len(local[p].songs) :
          /\ <<p, j>> \in UpdatedAt
          /\ MinOf(TitleMatches(p, up.m3u0[p].songs[j])) \notin Unclaimed(p)
          /\ local[p].songs[n] = up.m3u0[p].songs[n]

-----------------------------------------------------------------------------
(* The order in which the playlists are processed                          *)

\* C16: the playlists are processed in the insertion order of the input
\* mapping, each once: the create and add requests of update_playlist for an
\* earlier-listed playlist all precede those for a later-listed one.
C16_PlaylistsInListingOrder ==
    phase = "update_playlist" =>
        \A p, q \in 1..Len(local) :
            p < q =>
                \A a, b \in 1..Len(calls) :
                    (calls[a].name = local[p].name /\ calls[b].name = local[q].name) => a < b

\* what update_playlist does: the requests for a later-listed playlist all
\* precede those for an earlier-listed one
PlaylistsInReverseOrder ==
    phase = "update_playlist" =>
        \A p, q \in 1..Len(local) :
            p < q =>
                \A a, b \in 1..Len(calls) :
                    (calls[a].name = local[p].name /\ calls[b].name = local[q].name) => b < a

\* update_uris takes the playlists in the insertion order of the mapping, each
\* once
UpdateUrisInListingOrder ==
    phase = "update_uris" =>
        /\ Len(up.order) <= Len(local)
        /\ \A n \in 1..Len(up.order) : up.order[n] = local[n].name
        /\ up.pc = "returned" => Len(up.order) = Len(local)

-----------------------------------------------------------------------------
(* Properties of get_m3u_metadata                                          *)

\* the file cannot be loaded or its extension is not a supported type
Unreadable(f) ==
    \/ Lower(f.ext) \notin {<<".","f","l","a","c">>, <<".","m","p","3">>,
                            <<".","m","4","a">>, <<".","w","m","a">>}
    \/ f.load \in {"None", "error_twice"}

\* the paths of the files of md.files[1..n] that can be read, in order
RECURSIVE ReadablePaths(_)
ReadablePaths(n) ==
    IF n = 0 THEN <<>>
    ELSE ReadablePaths(n - 1)
         \o (IF Unreadable(md.files[n]) THEN <<>> ELSE <<md.files[n]>>)

\* C17: get_song_metadata returns None without raising for every path whose
\* file cannot be loaded or whose extension is not supported, so
\* get_m3u_metadata never ends in an exception, and returns the records of
\* exactly the remaining files of the playlist, in order.
C17_UnreadableFilesOmitted ==
    phase = "get_m3u_metadata" =>
        /\ md.pc \in {"files", "returned"}
        /\ md.pc = "returned" =>
              /\ Len(md.playlist) = Len(ReadablePaths(Len(md.files)))
              /\ \A k \in 1..Len(md.playlist) :
                    md.playlist[k].path = ReadablePaths(Len(md.files))[k]

\* the same for playlists whose files all have a supported extension
UnloadableFilesOmitted ==
    (phase = "get_m3u_metadata"
        /\ \A n \in 1..Len(md.files) : Lower(md.files[n].ext) \in FiletypeTags) =>
        /\ md.pc \in {"files", "returned"}
        /\ md.pc = "returned" =>
              /\ Len(md.playlist) = Len(ReadablePaths(Len(md.files)))
              /\ \A k \in 1..Len(md.playlist) :
                    md.playlist[k].path = ReadablePaths(Len(md.files))[k]

-----------------------------------------------------------------------------
(* Properties of search_all: the uri key absent and uri = None             *)

\* the number of songs of the playlists lib that have no uri key
RECURSIVE Unattempted(_, _)
Unattempted(lib, p) ==
    IF p > Len(lib) THEN 0
    ELSE Len(SearchSongs(lib[p].songs)) + Unattempted(lib, p + 1)

\* C18: 'uri key absent' and 'uri = None' are kept apart. search_all searches
\* exactly the songs with no uri key, and a song with the key, holding an
\* identifier or None, is not searched and not changed; so a second search_all
\* directly after the first makes no search, changes no song and returns
\* empty results.
C18_AbsentAndNoneDistinct ==
    /\ phase \in {"search_all", "search_all_again"} =>
          /\ \A p \in 1..Len(m3u) : \A j \in 1..Len(m3u[p].songs) :
                HasUri(sa.before[p].songs[j]) => m3u[p].songs[j] = sa.before[p].songs[j]
          /\ sa.pc = "get_uri" =>
                \A n \in 1..Len(sa.search_songs) :
                    ~HasUri(sa.before[sa.i].songs[sa.search_songs[n]])
          /\ sa.pc = "returned" => sa.searched = Unattempted(sa.before, 1)
    /\ phase = "search_all_again" =>
          /\ sa.searched = 0
          /\ m3u = sa.before
          /\ sa.pc = "returned" => (DOMAIN sa.results = {} /\ DOMAIN sa.missing = {})

\* the second search_all has returned, on playlists in which the first found
\* one song and marked another uri = None
C18_Witness ==
    /\ phase = "search_all_again" /\ sa.pc = "returned"
    /\ \E p \in 1..Len(m3u) : \E j, k \in Attempted0(p) :
          /\ m3u[p].songs[j].uri = None
          /\ m3u[p].songs[k].uri # None

-----------------------------------------------------------------------------
(* Properties of the artist loop of weak_match                             *)

\* artist_match and not_karaoke as weak_match has them after the artist loop
\* of track t, for the song the call was made with
AfterArtistLoop(t) ==
    WeakArtistLoop(t, clean_tags(song0, <<"all">>)[2], 1, TRUE, AlbumNotKaraoke(t))

\* every token of the song's artist key occurs in the normalised name of
\* artist k of track t
ArtistNameMatches(t, k) ==
    AllWordsIn(clean_tags(song0, <<"all">>)[2], CleanArtist(t.artists[k].name))

\* the karaoke guard is tripped once the first artist of track t has been
\* looked at: not_karaoke is false after line 280, or, as the guard is
\* specified, the name of the first artist contains "karaoke"
TripsAtFirstArtist(t) ==
    /\ Len(t.artists) >= 1
    /\ \/ ~(AlbumNotKaraoke(t) /\ ArtistNotKaraoke(t.artists[1]))
       \/ In(KARAOKE, Lower(t.artists[1].name))

-----------------------------------------------------------------------------
(* Properties of the last attempt of get_uri                               *)

\* the tracks of results_title that weak_match accepts for the song
QualifyingInTitleResults ==
    {k \in 1..Len(g.results_title) :
        WeakAccepts(g.song, g.results_title[k], g.keys[1], g.keys[2],
                    MinLengthDiff * 1000)}

\* get_uri has come to its return after all four attempts, the first three
\* having found nothing
AllFourAttempted ==
    /\ phase = "get_uri" /\ g.pc = "l212"
    /\ Len(g.alog) = 4
    /\ \A i \in 1..3 : g.alog[i].post = None

\* C20: when both strong_match attempts and weak_match on results found
\* nothing and results_title has a candidate that qualifies for weak_match, the
\* song get_uri returns carries the uri of such a candidate, and search_all
\* neither lists the song as missing nor sets its uri to None.
C20_LastAttemptKeepsUri ==
    (AllFourAttempted /\ QualifyingInTitleResults # {}) =>
        /\ HasUri(g.song)
        /\ \E k \in QualifyingInTitleResults : g.song.uri = g.results_title[k].uri
        /\ MissingOf(<<g.song>>, <<1>>) = <<>>
        /\ MarkMissing(<<g.song>>, MissingOf(<<g.song>>, <<1>>)) = <<g.song>>

\* the fourth attempt alone found a candidate
C20_Witness ==
    /\ AllFourAttempted
    /\ QualifyingInTitleResults # {}
    /\ g.alog[4].post # None

-----------------------------------------------------------------------------
(* update_uris, then update_playlist                                       *)

\* update_playlist has returned after update_uris
SyncEnded == phase = "update_playlist" /\ up.pc = "returned" /\ "updated" \in DOMAIN up

\* the songs of playlist p that update_uris did not change
NotUpdated(p) == {k \in 1..Len(local[p].songs) : <<p, k>> \notin UpdatedAt}

\* C21 as stated: after update_uris and then update_playlist on the same data,
\* for every song update_uris changed, its new uri is a uri of the remote
\* playlist, and neither its new uri nor its old_uri is in any request that adds
\* to its playlist.
C21_OldUriNeverSubmitted ==
    SyncEnded =>
        \A u \in UpdatedAt :
            LET name == local[u[1]].name
                s == local[u[1]].songs[u[2]]
            IN  /\ name \in DOMAIN spotify
                /\ s.uri \in RemoteUris(name)
                /\ ~Member(s.uri, SubmittedIn(calls, name))
                /\ ~Member(s.old_uri, SubmittedIn(calls, name))

\* C21: after update_uris and then update_playlist on the same data, for
\* every song update_uris changed, its new uri is a uri of the remote playlist
\* and is in no request that adds to its playlist; the identifiers added to the
\* playlist are those of the songs update_uris did not change, so that its
\* old_uri is added only when such a song of the playlist holds it.
C21_RepointedSongNotAppended ==
    SyncEnded =>
        \A u \in UpdatedAt :
            LET name == local[u[1]].name
                songs == local[u[1]].songs
                s == songs[u[2]]
            IN  /\ name \in DOMAIN spotify
                /\ s.uri \in RemoteUris(name)
                /\ ~Member(s.uri, SubmittedIn(calls, name))
                /\ \A c \in 1..Len(SubmittedIn(calls, name)) :
                       \E k \in NotUpdated(u[1]) :
                           HasUri(songs[k]) /\ songs[k].uri = SubmittedIn(calls, name)[c]
                /\ Member(s.old_uri, SubmittedIn(calls, name)) =>
                       \E k \in NotUpdated(u[1]) :
                           HasUri(songs[k]) /\ songs[k].uri = s.old_uri

\* both calls have ended, a song was changed and another song of its playlist,
\* left alone, was added to the remote playlist
C21_Witness ==
    /\ SyncEnded
    /\ \E u \in UpdatedAt :
           /\ SubmittedIn(calls, local[u[1]].name) # <<>>
           /\ ~Member(local[u[1]].songs[u[2]].old_uri, SubmittedIn(calls, local[u[1]].name))

-----------------------------------------------------------------------------
(* strong_match on a song with an empty album                              *)

\* the song of the call has the empty string as its raw album
EmptyAlbum == phase = "strong" /\ song0.album = <<>>

\* for a song with an empty album, album_match holds against every track and
\* strong_match takes the first track that passes guard(_)
EmptyAlbumTakesFirst(guard(_)) ==
    EmptyAlbum =>
        /\ \A i \in 1..Len(tracks) : album_match(song0, tracks[i])
        /\ LET Q == {i \in 1..Len(tracks) : guard(tracks[i])}
           IN  Q # {} => /\ song = SetKey(song0, "uri", tracks[MinOf(Q)].uri)
                         /\ ret = SongRef

\* C22: a song whose raw album is the empty string has album_match true
\* against every candidate, and strong_match gives it the uri of the first
\* candidate whose karaoke guard passes, whatever that candidate's duration and
\* release year.
C22_EmptyAlbumTakesFirstGuarded == EmptyAlbumTakesFirst(KaraokeGuard)

\* the statement of C22 with the guard as strong_match evaluates it
EmptyAlbumTakesFirstAsCoded == EmptyAlbumTakesFirst(CodedGuard)

\* a song with an empty album got the uri of a track that agrees with it in
\* neither duration nor release year
EmptyAlbumTakesFar ==
    /\ EmptyAlbum
    /\ ret = SongRef
    /\ \E i \in 1..Len(tracks) :
           /\ song.uri = tracks[i].uri
           /\ ~time_match(song0, tracks[i]) /\ ~year_match(song0, tracks[i])

-----------------------------------------------------------------------------
(* clean_up_env                                                            *)

KindNames == {Kinds[k] : k \in 1..Len(Kinds)}

\* the entries of a kind that clean_up_env has removed
Removed(kind) == env.fs0[kind] \ env.fs[kind]

\* min(n, max(keep, 1))
LeastLeft(n, keep) ==
    LET k1 == IF keep > 1 THEN keep ELSE 1
    IN  IF n < k1 THEN n ELSE k1

\* C23: at no point of clean_up_env does a kind hold fewer than
\* min(n, max(keep, 1)) entries, n being the number of its entries before the
\* call and keep the argument as given; with n <= keep none of its entries is
\* removed.
C23_KeepsAtLeastKeep ==
    phase = "clean_up_env" =>
        \A kind \in KindNames :
            LET n == Cardinality(env.fs0[kind])
            IN  /\ Cardinality(env.fs[kind]) >= LeastLeft(n, env.keep0)
                /\ n <= env.keep0 => env.fs[kind] = env.fs0[kind]

\* clean_up_env has returned; of a kind with more than keep entries some were
\* removed, exactly keep are left and one of those left is old as well; keep
\* was given as 0 and counted as 1
C23_Witness ==
    /\ phase = "clean_up_env" /\ env.pc = "returned"
    /\ env.keep0 = 0
    /\ \E kind \in KindNames :
           /\ Removed(kind) # {}
           /\ Cardinality(env.fs[kind]) = 1
           /\ \E e \in env.fs[kind] : e.cls = 1 /\ e.ts < env.now - env.days

\* the removal list of a kind, once line 50 has stored it
RemoveListOf(kind) == IF kind \in DOMAIN env.remove THEN env.remove[kind] ELSE <<>>

-----------------------------------------------------------------------------
(* auth and refresh_token                                                  *)

\* C25: after every auth() call that returns, whatever load, re-authorise
\* and refresh steps it took, the returned headers are self.headers, their
\* Authorization value is '<token_type> <access_token>' of the current
\* self.TOKEN, and token.json holds that same self.TOKEN.
C25_HeadersAndFileMatchToken ==
    phase = "auth" /\ auth.pc = "returned" =>
        /\ ~auth.TOKEN.none
        /\ auth.ret = auth.headers
        /\ DOMAIN auth.ret.d = {"Authorization"}
        /\ auth.ret.d.Authorization =
               auth.TOKEN.d.token_type \o <<" ">> \o auth.TOKEN.d.access_token
        /\ auth.file = [exists |-> TRUE, json |-> auth.TOKEN]

\* a second auth() call has returned after a refresh that changed the access
\* token loaded or held at its start
C25_Witness ==
    /\ phase = "auth" /\ auth.pc = "returned"
    /\ auth.n = 2 /\ auth.src = "refresh"
    /\ auth.before.d.access_token # auth.TOKEN.d.access_token


\* C26: the token refresh_token returns, which auth keeps as self.TOKEN,
\* always carries a refresh_token: that of the endpoint's answer when the
\* answer has one, otherwise that of the token held before the call; after
\* any number of refreshes in a row the token held, and the token written to
\* token.json from it, still has a refresh_token.
C26_RefreshKeepsRefreshToken ==
    phase = "auth" =>
        /\ auth.src = "refresh" =>
               /\ "refresh_token" \in DOMAIN auth.TOKEN.d
               /\ auth.TOKEN.d.refresh_token =
                      IF "refresh_token" \in DOMAIN auth.resp.d
                      THEN auth.resp.d.refresh_token
                      ELSE auth.before.d.refresh_token
               /\ \A k \in DOMAIN auth.resp.d : auth.TOKEN.d[k] = auth.resp.d[k]
        /\ auth.file_src = "refresh" => "refresh_token" \in DOMAIN auth.file.json.d

\* two refreshes in a row: the first answer brought a new refresh token, the
\* second brought none, and the token saved after it carries the first one's
C26_Witness ==
    /\ phase = "auth" /\ auth.pc = "returned"
    /\ auth.refreshes = 2 /\ auth.src = "refresh" /\ auth.file_src = "refresh"
    /\ "refresh_token" \notin DOMAIN auth.resp.d
    /\ auth.TOKEN.d.refresh_token = <<"r","2">>
    /\ auth.file.json = auth.TOKEN

-----------------------------------------------------------------------------
(* import_uri                                                              *)

\* the positions of the songs of the playlists
ImportPositions ==
    UNION {{<<p, j>> : j \in 1..Len(imp.local0[p].songs)} : p \in 1..Len(imp.local0)}

\* the stored file lists, under the song's album, a name that lower-cased and
\* stripped is the song's lower-cased, stripped filename
ListedUris(s) ==
    IF ~imp.stored.exists \/ "album" \notin DOMAIN s THEN {}
    ELSE IF s.album \notin DOMAIN imp.stored.json THEN {}
    ELSE {m.uri : m \in {n \in Elems(imp.stored.json[s.album]) :
                            Strip(Lower(n.name)) = ImportKey(s)}}

\* C27: with refresh=False, at every point of import_uri every song that had
\* a uri key on entry (an identifier or None) is as it was; a song that differs
\* from its state on entry had no uri key, the stored file lists its
\* lower-cased, stripped filename under its album, and it differs only by a
\* uri taken from there; when the stored file does not exist the input is
\* returned with no song changed.
C27_ImportKeepsExistingUris ==
    phase = "import_uri" /\ ~imp.refresh =>
        /\ \A u \in ImportPositions :
               LET before == imp.local0[u[1]].songs[u[2]]
                   after == imp.local[u[1]].songs[u[2]]
               IN  /\ HasUri(before) => after = before
                   /\ after # before =>
                          /\ ~HasUri(before)
                          /\ \E v \in ListedUris(before) : after = SetKey(before, "uri", v)
        /\ ~imp.stored.exists => imp.local = imp.local0
        /\ imp.pc = "returned" => imp.ret = "local"

\* import_uri has returned with refresh=False: a song whose filename is listed
\* kept the None it had, and a song without uri key got the listed uri
C27_Witness ==
    /\ phase = "import_uri" /\ ~imp.refresh /\ imp.pc = "returned"
    /\ \E u, w \in ImportPositions :
           /\ HasUri(imp.local0[u[1]].songs[u[2]])
           /\ imp.local0[u[1]].songs[u[2]].uri = None
           /\ ListedUris(imp.local0[u[1]].songs[u[2]]) # {}
           /\ ~HasUri(imp.local0[w[1]].songs[w[2]])
           /\ HasUri(imp.local[w[1]].songs[w[2]])

=============================================================================
